---- MODULE Spec2Model ----
(***************************************************************************)
(* Model of the fuel route optimizer (fuel_optimizer/services/             *)
(* optimizer_v2.py): one planning request, from the route lookup through   *)
(* the corridor filter, the dynamic program, the greedy fallback and the   *)
(* assembly of the result.                                                 *)
(*                                                                         *)
(* Fixed-point units (the code computes in floats):                        *)
(*   chainage, route distance, range : 1/1000 mile                         *)
(*   retail_price, dp costs          : 1/100000 dollar per gallon / dollar *)
(*   reported miles, gallons, costs  : 1/100 (two decimals, as round(x,2)) *)
(*   reported price_per_gallon       : 1/1000 (three decimals)             *)
(* The input sets below hold no value that lies exactly half way between   *)
(* two representable results, where the float outcome would depend on the  *)
(* binary expansion.                                                       *)
(***************************************************************************)
EXTENDS Integers, Sequences, FiniteSets, TLC

VARIABLES
    pc,                 \* position of the request in optimize_route
    route_distance,     \* route.distance_miles
    on_route_stations,  \* list of (station, chainage), as the filter returns it
    dp,                 \* dp[0..n+1], minimum cost to reach each node
    parent,             \* parent[0..n+1], predecessor pointers
    i,                  \* outer loop index of the DP table
    producer,           \* which branch built the stops: "dp", "greedy", "none"
    g,                  \* loop index of the greedy pass
    prev_chainage,      \* _greedy_fallback: chainage of the last stop
    current_range,      \* _greedy_fallback: current_range
    optimal_stops,      \* the list of OptimizedFuelStop being built / returned
    result,             \* the OptimizedRouteResult
    response_status,    \* HTTP status of the response, 0 while pending
    request_data,       \* RouteView.post: request.data, fields start and end
    validated_data,     \* serializer.validated_data
    optimizer_invoked,  \* optimize_fuel_route_v2 has been called
    geocode_requests,   \* requests sent to the geocoder, per address
    route_requests,     \* requests sent to the routing server
    route_reply,        \* what the routing server answered, "none" before
    response_error,     \* the 'error' field of the response, "" if absent
    address_coords,     \* start_coords / end_coords: "None" or "found"
    options,            \* Command.handle: the flags of the command line
    stations,           \* the FuelStation table
    unique_locations,   \* distinct (city, state) of the un-geocoded stations
    idx,                \* position in unique_locations, from 1
    attempt,            \* attempt on the current location, from 0
    coords_cache,       \* cache_key -> coordinates
    failed_locations,   \* the entries appended to failed_locations
    outcomes,           \* what each request for the current location came to
    backoffs,           \* the back-off waits made for the current location
    waited,             \* seconds slept since the last request
    last_gap,           \* seconds slept between the last two requests
    polyline,           \* find_stations_along_route: the segments of the route
    catalog,            \* the geocoded stations, ordered by retail_price
    retained,           \* the catalog positions of on_route_stations, in order
    running,            \* the request whose thread is executing
    parked,             \* the locals of the requests whose threads are waiting
    inputs              \* per request: the route and the filter's list

\* the state of the HTTP request around the planner
requestVars == <<request_data, validated_data, optimizer_invoked,
                 geocode_requests, route_requests, route_reply,
                 response_error, address_coords>>

\* the state of a run of the load_fuel_stations command
ingestVars == <<options, stations, unique_locations, idx, attempt, coords_cache,
                failed_locations, outcomes, backoffs, waited, last_gap>>

\* the state of the corridor filter
filterVars == <<polyline, catalog, retained>>

\* the requests served at the same time
threadVars == <<running, parked, inputs>>

vars == <<pc, route_distance, on_route_stations, dp, parent, i, producer, g,
          prev_chainage, current_range, optimal_stops, result, response_status,
          requestVars, ingestVars, filterVars, threadVars>>

---------------------------------------------------------------------------
(* Constants of the program *)

VEHICLE_RANGE_MILES == 500
FUEL_EFFICIENCY_MPG == 10
GREEDY_BUFFER_MILES == 50

HTTP_200_OK == 200
HTTP_400_BAD_REQUEST == 400
HTTP_500_INTERNAL_SERVER_ERROR == 500

\* the "no parent" marker of the parent array
NoParent == -1

\* a length in miles, in the model's unit of 1/1000 mile
Miles(m) == m * 1000

\* a price in dollars and hundred-thousandths, in the model's unit
Price(dollars, frac) == dollars * 100000 + frac

---------------------------------------------------------------------------
(* Bounds and input sets *)

MaxStations == 3

\* an on-route station as the planner reads it: station.retail_price and
\* the chainage the corridor filter attached to it
Station(c, p) == [chainage |-> c, retail_price |-> p]

\* three chainages at three prices: cheaper stations before and after dearer
\* ones
ScenarioStationSet ==
    {Station(c, p) : c \in {Miles(100), Miles(450), Miles(900)},
                     p \in {Price(2, 80000), Price(2, 90000), Price(3, 0)}}

\* legs of exactly the range, of a thousandth of a mile less and of a
\* thousandth more
BoundaryStationSet ==
    {Station(c, Price(3, 0)) :
        c \in {Miles(450) - 1, Miles(450), Miles(500), Miles(500) + 1,
               Miles(1000) + 1}}

\* chainages whose float difference is not the difference of the decimals:
\* 574.003 - 74.003 is 500.00000000000006, above the range, and
\* 1024.003 - 574.003 is 449.99999999999994, below range - 50
DifferenceStationSet ==
    {Station(c, Price(3, 0)) :
        c \in {Miles(74) + 3, Miles(574) + 3, Miles(1024) + 3}}

\* a station that gives fuel away
FreeStationSet == {Station(Miles(100), Price(0, 0))}

\* 1000.015 lies half way between two hundredths: round() sends the float
\* nearest to it down, to 1000.01. 3.0005 lies half way between two
\* thousandths, and fifty gallons of it half way between two cents: round()
\* sends the floats up, to 3.001 and 150.03.
\* 2.8 + 3.0005 = 5.8005, but in floats 50 * 2.8 + 50 * 3.0005 is 290.025
\* and 50 * 5.8005 is 290.02500000000003: two stops at 2.8 and 3.0005 cost
\* less than one stop at 5.8005. In the same way 50 * 1.0 + 50 * 1.18 is
\* 109.0 and 50 * 2.18 is 109.00000000000001.
FloatStationSet ==
    {Station(Miles(900), Price(3, 50)), Station(Miles(1000) + 15, Price(3, 50)),
     Station(Miles(500), Price(5, 80050)),
     Station(Miles(100), Price(1, 0)), Station(Miles(450), Price(2, 18000)),
     Station(Miles(600), Price(1, 18000))}

\* the stations of one route are drawn from one of these sets
StationPools ==
    {ScenarioStationSet \cup FreeStationSet, BoundaryStationSet,
     DifferenceStationSet, FloatStationSet}

\* route.distance_miles is rounded to two decimals by the routing service;
\* a tenth of 300.15 lies half way between two hundredths, and round()
\* sends the float quotient down, to 30.01
DistanceSet == {Miles(300), Miles(300) + 150, Miles(500), Miles(950),
               Miles(1000), Miles(1200)}

---------------------------------------------------------------------------
(* Arithmetic helpers *)

\* Binary floating point: a Python float is an IEEE 754 binary64.
\* A float is [mant, exp] with value mant * 2^exp, mant a whole number of
\* exactly MANT_DIG binary digits; zero is Zero. A whole number too large
\* for one machine word is the sequence of its digits in base BASE, most
\* significant first.

\* sys.float_info.mant_dig
MANT_DIG == 53

\* binary digits in one digit of a long number
LIMB_BITS == 13

RECURSIVE Pow2(_)
Pow2(n) == IF n = 0 THEN 1 ELSE 2 * Pow2(n - 1)

BASE == Pow2(LIMB_BITS)

Zero == [mant |-> <<>>, exp |-> 0]

\* float('inf'): no digits, and an exponent above every finite float's
\* (sys.float_info.max_exp)
Inf == [mant |-> <<>>, exp |-> 1024]

Zeros(n) == [k \in 1..n |-> 0]

\* a long number without its leading zeros
RECURSIVE Trim(_)
Trim(limbs) ==
    IF limbs = <<>> THEN <<>>
    ELSE IF Head(limbs) # 0 THEN limbs
    ELSE Trim(Tail(limbs))

\* the long number of a machine-word number n >= 0
RECURSIVE IntLimbs(_)
IntLimbs(n) ==
    IF n = 0 THEN <<>> ELSE IntLimbs(n \div BASE) \o <<n % BASE>>

\* the machine-word number of a long number that fits
RECURSIVE LimbsValue(_)
LimbsValue(limbs) ==
    IF limbs = <<>> THEN 0
    ELSE LimbsValue(SubSeq(limbs, 1, Len(limbs) - 1)) * BASE
             + limbs[Len(limbs)]

\* number of binary digits of n: int.bit_length
BitLength(n) ==
    IF n = 0 THEN 0
    ELSE CHOOSE len \in 1..30 : Pow2(len - 1) <= n /\ n < Pow2(len)

LimbsBitLength(limbs) ==
    LET t == Trim(limbs)
    IN  IF t = <<>> THEN 0
        ELSE (Len(t) - 1) * LIMB_BITS + BitLength(Head(t))

\* limbs * c + carry, c a machine-word number
RECURSIVE Times(_, _, _)
Times(limbs, c, carry) ==
    IF limbs = <<>> THEN IntLimbs(carry)
    ELSE LET last == limbs[Len(limbs)] * c + carry
         IN  Times(SubSeq(limbs, 1, Len(limbs) - 1), c, last \div BASE)
                 \o <<last % BASE>>

\* long division by a machine-word number den, remainder r coming in:
\* the digits of the quotient and the remainder left
RECURSIVE Divide(_, _, _)
Divide(limbs, den, r) ==
    IF limbs = <<>> THEN [digits |-> <<>>, rem |-> r]
    ELSE LET first == r * BASE + Head(limbs)
             rest == Divide(Tail(limbs), den, first % den)
         IN  [digits |-> <<first \div den>> \o rest.digits, rem |-> rest.rem]

\* a + b + carry for long numbers of the same length
RECURSIVE Plus(_, _, _)
Plus(a, b, carry) ==
    IF a = <<>> THEN IntLimbs(carry)
    ELSE LET last == a[Len(a)] + b[Len(b)] + carry
         IN  Plus(SubSeq(a, 1, Len(a) - 1), SubSeq(b, 1, Len(b) - 1),
                  last \div BASE) \o <<last % BASE>>

\* limbs * 2^k
ShiftLeft(limbs, k) ==
    Times(limbs, Pow2(k % LIMB_BITS), 0) \o Zeros(k \div LIMB_BITS)

\* limbs \div 2^k, and whether digits were lost
ShiftRight(limbs, k) ==
    LET whole == k \div LIMB_BITS
        keep == IF Len(limbs) > whole THEN Len(limbs) - whole ELSE 0
        q == Divide(SubSeq(limbs, 1, keep), Pow2(k % LIMB_BITS), 0)
    IN  [digits |-> q.digits,
         lost |-> q.rem # 0
                  \/ \E m \in (keep + 1)..Len(limbs) : limbs[m] # 0]

IsOdd(limbs) == limbs # <<>> /\ limbs[Len(limbs)] % 2 = 1

\* the float nearest to limbs * 2^e plus, when sticky, a little more:
\* round to nearest, ties to even, as every float operation does
RoundNearestEven(limbs, e, sticky) ==
    LET len == LimbsBitLength(limbs)
    IN  IF len = 0 THEN Zero
        ELSE IF len <= MANT_DIG
        THEN [mant |-> Trim(ShiftLeft(limbs, MANT_DIG - len)),
              exp |-> e - (MANT_DIG - len)]
        ELSE LET drop == len - MANT_DIG
                 guarded == ShiftRight(limbs, drop - 1)
                 kept == ShiftRight(guarded.digits, 1).digits
                 up == IsOdd(guarded.digits)
                       /\ (sticky \/ guarded.lost \/ IsOdd(kept))
                 more == Trim(Plus(kept, Zeros(Len(kept)), 1))
             IN  IF ~up THEN [mant |-> Trim(kept), exp |-> e + drop]
                 ELSE IF LimbsBitLength(more) > MANT_DIG
                 THEN [mant |-> Trim(ShiftRight(more, 1).digits),
                       exp |-> e + drop + 1]
                 ELSE [mant |-> more, exp |-> e + drop]

\* binary digits appended to a dividend so that the quotient by a
\* machine-word number has more than MANT_DIG + 1 of them
QUOTIENT_BITS == 6 * LIMB_BITS

\* the float nearest to limbs * 2^e / den
FloatQuotient(limbs, e, den) ==
    LET q == Divide(limbs \o Zeros(QUOTIENT_BITS \div LIMB_BITS), den, 0)
    IN  RoundNearestEven(q.digits, e - QUOTIENT_BITS, q.rem # 0)

\* the float nearest to num / den: a float read from a decimal, or stored
\* by round(), whose decimal value is num / den
FloatOf(num, den) == FloatQuotient(IntLimbs(num), 0, den)

\* x / den for a float x and a small whole number den
FloatDiv(x, den) == FloatQuotient(x.mant, x.exp, den)

\* c * x for a float x and a small whole number c
FloatMul(x, c) == RoundNearestEven(Times(x.mant, c, 0), x.exp, FALSE)

\* x + y for floats x, y >= 0
FloatAdd(x, y) ==
    IF x = Zero THEN y
    ELSE IF y = Zero THEN x
    ELSE LET hi == IF x.exp >= y.exp THEN x ELSE y
             lo == IF x.exp >= y.exp THEN y ELSE x
             a == ShiftLeft(hi.mant, hi.exp - lo.exp)
             b == Zeros(Len(a) - Len(lo.mant)) \o lo.mant
         IN  RoundNearestEven(Plus(a, b, 0), lo.exp, FALSE)

\* a - b - borrow for long numbers of the same length, a >= b + borrow
RECURSIVE Minus(_, _, _)
Minus(a, b, borrow) ==
    IF a = <<>> THEN <<>>
    ELSE LET last == a[Len(a)] - b[Len(b)] - borrow
         IN  Minus(SubSeq(a, 1, Len(a) - 1), SubSeq(b, 1, Len(b) - 1),
                   IF last < 0 THEN 1 ELSE 0)
                 \o <<IF last < 0 THEN last + BASE ELSE last>>

\* x - y for floats x >= y >= 0
FloatSub(x, y) ==
    IF y = Zero THEN x
    ELSE LET a == ShiftLeft(x.mant, x.exp - y.exp)
             b == Zeros(Len(a) - Len(y.mant)) \o y.mant
         IN  RoundNearestEven(Minus(a, b, 0), y.exp, FALSE)

\* round(x, ndigits) for a float x >= 0, scale = 10^ndigits: the multiple of
\* 1/scale nearest to the binary value of x, in units of 1/scale; a value
\* exactly half way goes to the even multiple
Round(x, scale) ==
    LET product == Times(x.mant, scale, 0)
        halves == IF x.exp >= 0
                  THEN [digits |-> ShiftLeft(product, x.exp + 1), lost |-> FALSE]
                  ELSE ShiftRight(product, -x.exp - 1)
        floor == LimbsValue(ShiftRight(halves.digits, 1).digits)
    IN  IF ~IsOdd(halves.digits) THEN floor
        ELSE IF halves.lost THEN floor + 1
        ELSE IF floor % 2 = 0 THEN floor
        ELSE floor + 1

\* round(x, 2), in hundredths
Round2(x) == Round(x, 100)

\* round(x, 3), in thousandths
Round3(x) == Round(x, 1000)

\* a < b for two whole numbers of the same number of digits
RECURSIVE LimbsLess(_, _)
LimbsLess(a, b) ==
    IF a = <<>> THEN FALSE
    ELSE IF Head(a) # Head(b) THEN Head(a) < Head(b)
    ELSE LimbsLess(Tail(a), Tail(b))

\* x < y for two finite floats that are not negative: the mantissas have
\* the same number of digits, so the exponent decides first
FloatLess(x, y) ==
    IF y = Zero THEN FALSE
    ELSE IF x = Zero THEN TRUE
    ELSE IF x.exp # y.exp THEN x.exp < y.exp
    ELSE LimbsLess(x.mant, y.mant)

\* the comparison of the DP transition turned around
CostLessFlipped(a, b) ==
    IF a = Inf THEN FALSE ELSE IF b = Inf THEN TRUE ELSE FloatLess(b, a)

\* the comparison of the DP transition with <= in place of <
CostLessOrEqual(a, b) ==
    IF a = Inf THEN FALSE ELSE IF b = Inf THEN TRUE ELSE ~FloatLess(b, a)

\* the comparison of the DP transition left out: every finite candidate wins
CostLessForgotten(a, b) == a # Inf

\* candidate_cost < dp[i]; inf is below nothing and above every finite float
CostLess(a, b) ==
    IF a = Inf THEN FALSE ELSE IF b = Inf THEN TRUE ELSE FloatLess(a, b)

\* dp[j] + refuel_cost; inf plus a finite float is inf
CostAdd(a, b) == IF a = Inf THEN Inf ELSE FloatAdd(a, b)

---------------------------------------------------------------------------
(* The on-route station lists of the planner's contract: chainage         *)
(* ascending, equal chainages in ascending price order,                    *)
(* 0 <= chainage <= route_distance, the invariant the spec gives for an    *)
(* on-route station. Whether the filter keeps that invariant is C21.       *)

StationType(pool, dist) == {st \in pool : st.chainage <= dist}

RECURSIVE SortedStationLists(_, _, _)
SortedStationLists(pool, dist, n) ==
    IF n = 0 THEN {<<>>}
    ELSE LET shorter == SortedStationLists(pool, dist, n - 1)
         IN shorter \cup
            UNION {{Append(s, st) :
                       st \in {x \in StationType(pool, dist) :
                                  \/ s = <<>>
                                  \/ s[Len(s)].chainage < x.chainage
                                  \/ /\ s[Len(s)].chainage = x.chainage
                                     /\ s[Len(s)].retail_price <= x.retail_price}} :
                   s \in {t \in shorter : Len(t) = n - 1}}

OnRouteStationLists(dist) ==
    UNION {SortedStationLists(pool, dist, MaxStations) : pool \in StationPools}

---------------------------------------------------------------------------
(* _find_optimal_stops_dp: the table *)

START_IDX == 0
END_IDX(sts) == Len(sts) + 1

\* current_chainage / prev_chainage of node k (lines 195-199, 203-206)
NodeChainage(dist, sts, k) ==
    IF k = START_IDX THEN 0
    ELSE IF k = END_IDX(sts) THEN dist
    ELSE sts[k].chainage

\* a chainage or a route distance of the model's unit as the float the
\* program holds
MilesFloat(c) == FloatOf(c, 1000)

\* distance_between = current_chainage - prev_chainage, a float difference
DistanceBetween(prev, current) == FloatSub(MilesFloat(current), MilesFloat(prev))

\* the range test with its operands exchanged (prev - current): the
\* difference is the negative of distance_between, which is above the range
\* when 0 is above the range plus distance_between
WithinRangeSwapped(distance_between) ==
    ~FloatLess(FloatAdd(FloatOf(VEHICLE_RANGE_MILES, 1), distance_between),
               Zero)

\* the range test with >= in place of >
WithinRangeStrict(distance_between) ==
    FloatLess(distance_between, FloatOf(VEHICLE_RANGE_MILES, 1))

\* the range test made on whole miles: int(distance_between) > 500
WithinRangeWholeMiles(distance_between) ==
    FloatLess(distance_between, FloatOf(VEHICLE_RANGE_MILES + 1, 1))

\* "Can only reach if within vehicle range": the edge j -> k is skipped
\* when distance_between > VEHICLE_RANGE_MILES
WithinRange(distance_between) ==
    ~FloatLess(FloatOf(VEHICLE_RANGE_MILES, 1), distance_between)

\* gallons = VEHICLE_RANGE_MILES / FUEL_EFFICIENCY_MPG, a full tank
FullTankGallons == VEHICLE_RANGE_MILES \div FUEL_EFFICIENCY_MPG

\* a refuel cost that leaves the station's price out
RefuelCostFlat(sts, k) ==
    IF k = END_IDX(sts) THEN Zero ELSE FloatOf(FullTankGallons, 1)

\* refuel_cost of arriving at node k: 0.0 at the destination, and at a
\* station the float product gallons * station.retail_price
RefuelCost(sts, k) ==
    IF k = END_IDX(sts) THEN Zero
    ELSE FloatMul(FloatOf(sts[k].retail_price, 100000), FullTankGallons)

\* the inner loop "for j in range(i)" for one node k, from j on;
\* acc = [dp |-> dp[k], parent |-> parent[k]] so far
RECURSIVE InnerLoop(_, _, _, _, _, _)
InnerLoop(dist, sts, dpv, k, j, acc) ==
    IF j >= k THEN acc
    ELSE LET distance_between ==
                 DistanceBetween(NodeChainage(dist, sts, j),
                                 NodeChainage(dist, sts, k))
             refuel_cost == RefuelCost(sts, k)
             candidate_cost == CostAdd(dpv[j], refuel_cost)
         IN IF ~WithinRange(distance_between)
            THEN InnerLoop(dist, sts, dpv, k, j + 1, acc)
            ELSE IF CostLess(candidate_cost, acc.dp)
            THEN InnerLoop(dist, sts, dpv, k, j + 1,
                           [dp |-> candidate_cost, parent |-> j])
            ELSE InnerLoop(dist, sts, dpv, k, j + 1, acc)

\* the test of the destination turned around
DestinationUnreachableNegated(dpv, sts) == dpv[END_IDX(sts)] # Inf

\* "if dp[END_IDX] == float('inf')"
DestinationUnreachable(dpv, sts) == dpv[END_IDX(sts)] = Inf

\* an unreachable destination raised as an error, not handed to the fallback
TableOutcomeRaises(dpv, sts) ==
    IF DestinationUnreachable(dpv, sts) THEN "raise" ELSE "backtrack"

\* what _find_optimal_stops_dp does once the table is built (lines 231-238):
\* delegate to the greedy fallback, or backtrack
TableOutcome(dpv, sts) ==
    IF DestinationUnreachable(dpv, sts) THEN "greedy_fallback" ELSE "backtrack"

\* the backtracking loop "while parent[current] != -1", path_indices in
\* the order they are appended (END towards START), as node indices
RECURSIVE Backtrack(_, _, _)
Backtrack(par, sts, current) ==
    IF par[current] = NoParent THEN <<>>
    ELSE LET prev == par[current]
         IN IF prev # START_IDX /\ prev # END_IDX(sts)
            THEN <<prev>> \o Backtrack(par, sts, prev)
            ELSE Backtrack(par, sts, prev)

\* the reversal of path_indices forgotten
ReverseForgotten(s) == s

\* path_indices.reverse()
Reverse(s) == [k \in 1..Len(s) |-> s[Len(s) + 1 - k]]

\* a stop that buys the gallons burnt since the station before it in the
\* list, not a full tank
MakeStopDemandBased(sts, k) ==
    LET distance_traveled ==
            sts[k].chainage - (IF k = 1 THEN 0 ELSE sts[k - 1].chainage)
        gallons_to_here == distance_traveled \div (1000 * FUEL_EFFICIENCY_MPG)
    IN [station         |-> k,
        price_per_gallon |-> Round3(FloatOf(sts[k].retail_price, 100000)),
        gallons_needed  |-> Round2(FloatOf(gallons_to_here, 1)),
        cost            |-> Round2(FloatMul(FloatOf(sts[k].retail_price, 100000),
                                            gallons_to_here)),
        miles_from_start |-> Round2(FloatOf(sts[k].chainage, 1000))]

\* OptimizedFuelStop built for station number k (1-based) of the list;
\* the field station stands for name, address, city, state, latitude and
\* longitude of that station
MakeStop(sts, k) ==
    [station         |-> k,
     price_per_gallon |-> Round3(FloatOf(sts[k].retail_price, 100000)),
     gallons_needed  |-> Round2(FloatOf(FullTankGallons, 1)),
     cost            |-> Round2(FloatMul(FloatOf(sts[k].retail_price, 100000),
                                         FullTankGallons)),
     miles_from_start |-> Round2(FloatOf(sts[k].chainage, 1000))]

\* the stops built from path_indices (lines 249-280)
BuildStops(sts, path) == [k \in 1..Len(path) |-> MakeStop(sts, path[k])]

---------------------------------------------------------------------------
(* _greedy_fallback *)

\* the refuel test with > in place of >=
NeedRefuelStrict(distance_from_prev, range) ==
    FloatLess(MilesFloat(range - Miles(GREEDY_BUFFER_MILES)),
              distance_from_prev)

\* the refuel test turned around
NeedRefuelInverted(distance_from_prev, range) ==
    ~FloatLess(MilesFloat(range - Miles(GREEDY_BUFFER_MILES)),
               distance_from_prev)

\* "Need refuel?": distance_from_prev >= current_range - 50, a float
\* against a whole number
NeedRefuel(distance_from_prev, range) ==
    ~FloatLess(distance_from_prev,
               MilesFloat(range - Miles(GREEDY_BUFFER_MILES)))

---------------------------------------------------------------------------
(* Totals *)

\* sum(stop.cost for stop in optimal_stops): the floats are added one by
\* one, from the first stop on
RECURSIVE SumCost(_)
SumCost(stops) ==
    IF stops = <<>> THEN Zero
    ELSE FloatAdd(SumCost(SubSeq(stops, 1, Len(stops) - 1)),
                  FloatOf(stops[Len(stops)].cost, 100))

\* total gallons with // in place of /
TotalGallonsFloorDiv(dist) == 100 * (dist \div (1000 * FUEL_EFFICIENCY_MPG))

\* total_gallons = round(route.distance_miles / FUEL_EFFICIENCY_MPG, 2)
TotalGallons(dist) ==
    Round2(FloatDiv(FloatOf(dist, 1000), FUEL_EFFICIENCY_MPG))

\* total_fuel_cost = round(sum(stop.cost), 2)
TotalFuelCost(stops) == Round2(SumCost(stops))

\* a result labelled by whether it has stops
OptimizedRouteResultLabelledByStops(dist, sts, stops) ==
    [fuel_stops |-> stops,
     total_fuel_cost |-> TotalFuelCost(stops),
     total_gallons |-> TotalGallons(dist),
     optimization_method |->
         IF stops = <<>> THEN "no_stations" ELSE "dynamic_programming",
     stations_considered |-> Len(sts)]

\* the OptimizedRouteResult of optimize_route, step 6
OptimizedRouteResult(dist, sts, stops) ==
    [fuel_stops |-> stops,
     total_fuel_cost |-> TotalFuelCost(stops),
     total_gallons |-> TotalGallons(dist),
     optimization_method |-> "dynamic_programming",
     stations_considered |-> Len(sts)]

\* an empty result that reports no consumption
EmptyResultZeroGallons(dist, method, considered) ==
    [fuel_stops |-> <<>>,
     total_fuel_cost |-> 0,
     total_gallons |-> 0,
     optimization_method |-> method,
     stations_considered |-> considered]

\* _create_empty_result(route, ..., method, stations_considered)
EmptyResult(dist, method, considered) ==
    [fuel_stops |-> <<>>,
     total_fuel_cost |-> 0,
     total_gallons |-> TotalGallons(dist),
     optimization_method |-> method,
     stations_considered |-> considered]

PendingResult ==
    [fuel_stops |-> <<>>, total_fuel_cost |-> 0, total_gallons |-> 0,
     optimization_method |-> "pending", stations_considered |-> 0]

---------------------------------------------------------------------------
(* RouteRequestSerializer: the fields start and end.  A string is held as  *)
(* the number of its leading whitespace characters, the length of its core *)
(* (from the first to the last character that is not whitespace, 0 if      *)
(* there is none) and the number of its trailing whitespace characters; a  *)
(* field that is absent from the request has present = FALSE.              *)

MAX_LENGTH == 200

Str(lead, core, trail) ==
    [present |-> TRUE, lead |-> lead, core |-> core, trail |-> trail]

MissingField == [present |-> FALSE, lead |-> 0, core |-> 0, trail |-> 0]

\* len(value)
StrLen(s) == s.lead + s.core + s.trail

\* value.strip()
Strip(s) == [present |-> s.present, lead |-> 0, core |-> s.core, trail |-> 0]

\* the length validator applied to the value as submitted
CharFieldValidUntrimmedLength(s) ==
    /\ s.present
    /\ StrLen(Strip(s)) # 0
    /\ StrLen(s) <= MAX_LENGTH

\* CharField(max_length=200) of the serializer: a required field; blank
\* after trimming is refused; the value is trimmed (trim_whitespace) and the
\* length validator sees the trimmed value
CharFieldValid(s) ==
    /\ s.present
    /\ StrLen(Strip(s)) # 0
    /\ StrLen(Strip(s)) <= MAX_LENGTH

\* validate_start / validate_end: strip, refuse the empty string
ValidateNonEmpty(s) == StrLen(Strip(s)) # 0

\* serializer.is_valid()
IsValid(data) ==
    /\ CharFieldValid(data.start) /\ ValidateNonEmpty(data.start)
    /\ CharFieldValid(data.end) /\ ValidateNonEmpty(data.end)

\* serializer.validated_data of a valid request
ValidatedData(data) == [start |-> Strip(data.start), end |-> Strip(data.end)]

---------------------------------------------------------------------------
(* OSRMRoutingService: the rate-limited geocoder *)

\* RateLimiter(..., max_retries=2): retries after a geocoder service error
MAX_RETRIES == 2

\* what one request to the geocoder can come to: a location, no result, a
\* geocoder service error (time-out, unavailable, ...), any other exception
GeocodeOutcomes == {"found", "none", "service_error", "other_error"}

\* the rate limiter sends the request again after a service error unless
\* max_retries retries have been made; it swallows the last error
RetryAfter(outcome, requests_made) ==
    outcome = "service_error" /\ requests_made < MAX_RETRIES + 1

\* the ValueError message of get_route_from_addresses
GeocodeErrorMessage(which) ==
    IF which = "start" THEN "Could not geocode start location"
    ELSE "Could not geocode end location"

---------------------------------------------------------------------------
(* load_fuel_stations, geocode_stations: strings are sequences of          *)
(* characters, so that upper-casing, the cache key and its split are the   *)
(* operations of the code.                                                 *)

\* max_attempts
MAX_ATTEMPTS == 3

\* time.sleep(1.0) before a request
RATE_LIMIT_SECONDS == 1

\* latitude / longitude of a station that has none (null=True)
Null == -1

\* waited, last_gap: no request has been sent yet / fewer than two
NoGap == -1

LowerCase == <<"a", "b", "c", "d", "e", "f", "g", "h", "i", "j", "k", "l", "m",
               "n", "o", "p", "q", "r", "s", "t", "u", "v", "w", "x", "y", "z">>

UpperCase == <<"A", "B", "C", "D", "E", "F", "G", "H", "I", "J", "K", "L", "M",
               "N", "O", "P", "Q", "R", "S", "T", "U", "V", "W", "X", "Y", "Z">>

UpperChar(c) ==
    IF \E k \in 1..26 : LowerCase[k] = c
    THEN UpperCase[CHOOSE k \in 1..26 : LowerCase[k] = c]
    ELSE c

\* state.upper()
Upper(str) == [k \in 1..Len(str) |-> UpperChar(str[k])]

\* canadian_provinces
canadian_provinces ==
    {<<"S", "K">>, <<"A", "B">>, <<"B", "C">>, <<"M", "B">>, <<"O", "N">>,
     <<"Q", "C">>, <<"N", "B">>, <<"N", "S">>, <<"P", "E">>, <<"N", "L">>,
     <<"N", "T">>, <<"Y", "T">>, <<"N", "U">>}

\* the membership test on the state as written
IsCanadianCaseSensitive(state) == state \in canadian_provinces

\* "if state.upper() in canadian_provinces"
IsCanadian(state) == Upper(state) \in canadian_provinces

\* cache_key = f"{city},{state}"
CacheKey(city, state) == city \o <<",">> \o state

\* cache_key.split(','): the list of the parts between the commas
RECURSIVE Split(_)
Split(key) ==
    IF \A k \in 1..Len(key) : key[k] # ","
    THEN <<key>>
    ELSE LET c == CHOOSE k \in 1..Len(key) :
                      key[k] = "," /\ \A m \in 1..(k - 1) : key[m] # ","
         IN  <<SubSeq(key, 1, c - 1)>> \o Split(SubSeq(key, c + 1, Len(key)))

\* query = f"{city}, {state}, USA", the entry of a failed lookup
Query(city, state) == [city |-> city, state |-> state, suffix |-> ", USA"]

\* f"{city}, {state} (Canada)", the entry of a skipped location
CanadaEntry(city, state) == [city |-> city, state |-> state, suffix |-> " (Canada)"]

\* the rate limit applied to every request after the first of the run
NeedsRateLimitSleepBoth(index, att) == index > 1 /\ att > 0

\* "if idx > 1 or attempt > 0: time.sleep(1.0)"
NeedsRateLimitSleep(index, att) == index > 1 \/ att > 0

\* the seconds slept before the request of this attempt
RateLimitSleep(index, att) ==
    IF NeedsRateLimitSleep(index, att) THEN RATE_LIMIT_SECONDS ELSE 0

\* wait_time = 2 ** attempt
RECURSIVE WaitTime(_)
WaitTime(att) == IF att = 0 THEN 1 ELSE 2 * WaitTime(att - 1)

\* the attempt loop with the break of the last handler forgotten
LoopContinuesWithoutBreak(outcome, att) ==
    outcome # "success" /\ att < MAX_ATTEMPTS - 1

\* whether "for attempt in range(max_attempts)" goes on to another attempt
\* after this one: not after a result or another exception (break), and not
\* after the last attempt
LoopContinues(outcome, att) ==
    outcome \in {"none", "transient"} /\ att < MAX_ATTEMPTS - 1

\* the query appended at every attempt without a result
RecordsFailureEveryAttempt(outcome, att) == outcome # "success"

\* whether this attempt appends the query to failed_locations
RecordsFailure(outcome, att) ==
    \/ outcome = "other"
    \/ outcome \in {"none", "transient"} /\ att = MAX_ATTEMPTS - 1

\* whether this attempt ends with the back-off sleep
BacksOff(outcome, att) == outcome = "transient" /\ att < MAX_ATTEMPTS - 1

\* the filter of the update step without "geocoded=False"
MatchesAnyFlag(st, parts) ==
    st.city = parts[1] /\ st.state = parts[2]

\* the update step would apply to these stations for one cache key
Matches(st, parts) ==
    st.city = parts[1] /\ st.state = parts[2] /\ ~st.geocoded

\* the update step unpacks every key into exactly city and state
AllKeysUnpack(cache) == \A key \in DOMAIN cache : Len(Split(key)) = 2

\* the table after .filter(city, state, geocoded=False).update(...) for every
\* cache entry
UpdatedStations(table, cache) ==
    [r \in DOMAIN table |->
        IF \E key \in DOMAIN cache : Matches(table[r], Split(key))
        THEN LET key == CHOOSE key \in DOMAIN cache :
                            Matches(table[r], Split(key))
             IN  [table[r] EXCEPT !.latitude = cache[key][1],
                                  !.longitude = cache[key][2],
                                  !.geocoded = TRUE]
        ELSE table[r]]

EmptyCache == [key \in {} |-> <<Null, Null>>]

\* one request is served at a time
SingleRequest ==
    /\ running = 1
    /\ parked = <<>>
    /\ inputs = <<>>

\* the corridor filter is not under study
FilterIdle ==
    /\ polyline = <<>>
    /\ catalog = <<>>
    /\ retained = <<>>

\* the command line without a flag
NoOptions == [geocode_only |-> FALSE, skip_geocoding |-> FALSE]

\* no run of the command is going on
IngestIdle ==
    /\ options = NoOptions
    /\ stations = <<>>
    /\ unique_locations = <<>>
    /\ idx = 0
    /\ attempt = 0
    /\ coords_cache = EmptyCache
    /\ failed_locations = <<>>
    /\ outcomes = <<>>
    /\ backoffs = <<>>
    /\ waited = NoGap
    /\ last_gap = NoGap

---------------------------------------------------------------------------
(* The request as a state machine *)

Init ==
    /\ pc = "get_route"
    /\ SingleRequest
    /\ route_distance = 0
    /\ on_route_stations = <<>>
    /\ dp = <<>>
    /\ parent = <<>>
    /\ i = 0
    /\ producer = "none"
    /\ g = 0
    /\ prev_chainage = 0
    /\ current_range = 0
    /\ optimal_stops = <<>>
    /\ result = PendingResult
    /\ response_status = 0
    /\ request_data = [start |-> Str(0, 1, 0), end |-> Str(0, 1, 0)]
    /\ validated_data = [start |-> Str(0, 1, 0), end |-> Str(0, 1, 0)]
    /\ optimizer_invoked = TRUE
    /\ geocode_requests = [start |-> 1, end |-> 1]
    /\ address_coords = [start |-> "found", end |-> "found"]
    /\ route_requests = 0
    /\ route_reply = "none"
    /\ response_error = ""
    /\ IngestIdle
    /\ FilterIdle

\* optimize_route step 1: the routing server answers code "Ok" with a route
\* whose distance, duration and geometry can be read; get_route returns the
\* RouteResult
GetRouteOk ==
    /\ pc = "get_route"
    /\ \E d \in DistanceSet : route_distance' = d
    /\ route_requests' = route_requests + 1
    /\ route_reply' = "route"
    /\ pc' = "filter"
    /\ UNCHANGED <<threadVars, filterVars, ingestVars, request_data, validated_data, optimizer_invoked,
                   geocode_requests, address_coords, response_error, on_route_stations, dp, parent, i, producer, g,
                   prev_chainage, current_range, optimal_stops, result,
                   response_status>>

\* optimize_route step 1: the routing server answers with an error status, a
\* code other than "Ok", a body without a route in it (KeyError, IndexError)
\* or not at all: get_route returns None, optimize_route raises ValueError
\* and RouteView.post answers 400
GetRouteFails ==
    /\ pc = "get_route"
    /\ route_requests' = route_requests + 1
    /\ route_reply' = "no_route"
    /\ pc' = "error"
    /\ response_status' = HTTP_400_BAD_REQUEST
    /\ response_error' = "Could not calculate route"
    /\ UNCHANGED <<threadVars, filterVars, ingestVars, request_data, validated_data, optimizer_invoked,
                   geocode_requests, address_coords, route_distance, on_route_stations, dp, parent, i, producer,
                   g, prev_chainage, current_range, optimal_stops, result>>

\* optimize_route step 1: the routing server answers with a body get_route
\* cannot read: a JSON list (AttributeError on data.get), code "Ok" with a
\* distance or duration that is null or a string (TypeError on the division)
\* or a geometry that is null (AttributeError on geometry.get). get_route
\* catches RequestException, KeyError and IndexError only: the exception
\* passes get_route_from_addresses and optimize_route, and RouteView.post
\* answers 500 from its "except Exception"
GetRouteRaises ==
    /\ pc = "get_route"
    /\ route_requests' = route_requests + 1
    /\ route_reply' = "unreadable"
    /\ pc' = "error"
    /\ response_status' = HTTP_500_INTERNAL_SERVER_ERROR
    /\ response_error' = "An unexpected error occurred"
    /\ UNCHANGED <<threadVars, filterVars, ingestVars, request_data, validated_data, optimizer_invoked,
                   geocode_requests, address_coords, route_distance, on_route_stations, dp, parent, i, producer,
                   g, prev_chainage, current_range, optimal_stops, result>>

\* find_stations_along_route: the corridor filter hands over the list
FilterStations ==
    /\ pc = "filter"
    /\ \E sts \in OnRouteStationLists(route_distance) : on_route_stations' = sts
    /\ pc' = "filtered"
    /\ UNCHANGED <<threadVars, filterVars, ingestVars, requestVars, route_distance, dp, parent, i, producer, g, prev_chainage,
                   current_range, optimal_stops, result, response_status>>

\* "if not on_route_stations": _create_empty_result and the 200 response
CreateEmptyResult ==
    /\ pc = "filtered"
    /\ on_route_stations = <<>>
    /\ result' = EmptyResult(route_distance, "no_stations", 0)
    /\ response_status' = HTTP_200_OK
    /\ pc' = "done"
    /\ UNCHANGED <<threadVars, filterVars, ingestVars, requestVars, route_distance, on_route_stations, dp, parent, i, producer,
                   g, prev_chainage, current_range, optimal_stops>>

\* entry of _find_optimal_stops_dp: the arrays and the base case
BeginDP ==
    /\ pc = "filtered"
    /\ on_route_stations # <<>>
    /\ dp' = [k \in 0..(Len(on_route_stations) + 1) |->
                 IF k = START_IDX THEN Zero ELSE Inf]
    /\ parent' = [k \in 0..(Len(on_route_stations) + 1) |-> NoParent]
    /\ i' = 1
    /\ pc' = "dp"
    /\ UNCHANGED <<threadVars, filterVars, ingestVars, requestVars, route_distance, on_route_stations, producer, g,
                   prev_chainage, current_range, optimal_stops, result,
                   response_status>>

\* one iteration of "for i in range(1, n + 2)"
DPRelax ==
    /\ pc = "dp"
    /\ i <= END_IDX(on_route_stations)
    /\ LET row == InnerLoop(route_distance, on_route_stations, dp, i, 0,
                            [dp |-> dp[i], parent |-> parent[i]])
       IN /\ dp' = [dp EXCEPT ![i] = row.dp]
          /\ parent' = [parent EXCEPT ![i] = row.parent]
    /\ i' = i + 1
    /\ UNCHANGED <<threadVars, filterVars, ingestVars, requestVars, pc, route_distance, on_route_stations, producer, g,
                   prev_chainage, current_range, optimal_stops, result,
                   response_status>>

\* the table is complete and the destination is reachable: backtrack and
\* build the stops
DPBacktrack ==
    /\ pc = "dp"
    /\ i > END_IDX(on_route_stations)
    /\ TableOutcome(dp, on_route_stations) = "backtrack"
    /\ optimal_stops' =
          BuildStops(on_route_stations,
                     Reverse(Backtrack(parent, on_route_stations,
                                       END_IDX(on_route_stations))))
    /\ producer' = "dp"
    /\ pc' = "totals"
    /\ UNCHANGED <<threadVars, filterVars, ingestVars, requestVars, route_distance, on_route_stations, dp, parent, i, g,
                   prev_chainage, current_range, result, response_status>>

\* the table is complete and dp[END_IDX] is inf: enter _greedy_fallback
DPFallback ==
    /\ pc = "dp"
    /\ i > END_IDX(on_route_stations)
    /\ TableOutcome(dp, on_route_stations) = "greedy_fallback"
    /\ optimal_stops' = <<>>
    /\ current_range' = Miles(VEHICLE_RANGE_MILES)
    /\ prev_chainage' = 0
    /\ g' = 1
    /\ producer' = "greedy"
    /\ pc' = "greedy"
    /\ UNCHANGED <<threadVars, filterVars, ingestVars, requestVars, route_distance, on_route_stations, dp, parent, i, result,
                   response_status>>

\* one iteration of "for station, chainage in on_route_stations"
GreedyStep ==
    /\ pc = "greedy"
    /\ g <= Len(on_route_stations)
    /\ LET chainage == on_route_stations[g].chainage
           distance_from_prev == DistanceBetween(prev_chainage, chainage)
       IN IF NeedRefuel(distance_from_prev, current_range)
          THEN /\ optimal_stops' =
                     Append(optimal_stops, MakeStop(on_route_stations, g))
               /\ current_range' = Miles(VEHICLE_RANGE_MILES)
               /\ prev_chainage' = chainage
          ELSE UNCHANGED <<optimal_stops, current_range, prev_chainage>>
    /\ g' = g + 1
    /\ UNCHANGED <<threadVars, filterVars, ingestVars, requestVars, pc, route_distance, on_route_stations, dp, parent, i,
                   producer, result, response_status>>

\* the greedy pass is over: return stops
GreedyReturn ==
    /\ pc = "greedy"
    /\ g > Len(on_route_stations)
    /\ pc' = "totals"
    /\ UNCHANGED <<threadVars, filterVars, ingestVars, requestVars, route_distance, on_route_stations, dp, parent, i, producer,
                   g, prev_chainage, current_range, optimal_stops, result,
                   response_status>>

\* optimize_route step 6: totals and the result; RouteView.post answers 200
Totals ==
    /\ pc = "totals"
    /\ result' = OptimizedRouteResult(route_distance, on_route_stations,
                                       optimal_stops)
    /\ response_status' = HTTP_200_OK
    /\ pc' = "done"
    /\ UNCHANGED <<threadVars, filterVars, ingestVars, requestVars, route_distance, on_route_stations, dp, parent, i, producer,
                   g, prev_chainage, current_range, optimal_stops>>

Next ==
    \/ GetRouteOk
    \/ GetRouteFails
    \/ GetRouteRaises
    \/ FilterStations
    \/ CreateEmptyResult
    \/ BeginDP
    \/ DPRelax
    \/ DPBacktrack
    \/ DPFallback
    \/ GreedyStep
    \/ GreedyReturn
    \/ Totals

Spec == Init /\ [][Next]_vars

---------------------------------------------------------------------------
(* The HTTP request in front of the planner: RouteView.post validates the *)
(* body, get_route_from_addresses geocodes start, then end, then asks for *)
(* the route.                                                             *)

\* the request bodies considered: each field is absent, or a string with no
\* or one whitespace character on either side of a core of 0, 1, MAX_LENGTH
\* or MAX_LENGTH + 1 characters
FieldSet ==
    {MissingField} \cup
    {Str(lead, core, trail) :
        lead \in {0, 1}, core \in {0, 1, MAX_LENGTH, MAX_LENGTH + 1},
        trail \in {0, 1}}

RequestDataSet == [start : FieldSet, end : FieldSet]

NoData == [start |-> MissingField, end |-> MissingField]

RequestInit ==
    /\ pc = "post"
    /\ SingleRequest
    /\ request_data \in RequestDataSet
    /\ validated_data = NoData
    /\ optimizer_invoked = FALSE
    /\ geocode_requests = [start |-> 0, end |-> 0]
    /\ address_coords = [start |-> "None", end |-> "None"]
    /\ route_requests = 0
    /\ route_reply = "none"
    /\ response_error = ""
    /\ route_distance = 0
    /\ on_route_stations = <<>>
    /\ dp = <<>>
    /\ parent = <<>>
    /\ i = 0
    /\ producer = "none"
    /\ g = 0
    /\ prev_chainage = 0
    /\ current_range = 0
    /\ optimal_stops = <<>>
    /\ result = PendingResult
    /\ response_status = 0
    /\ IngestIdle
    /\ FilterIdle

\* RouteView.post, "if not serializer.is_valid()": 400 with the details
PostInvalid ==
    /\ pc = "post"
    /\ ~IsValid(request_data)
    /\ pc' = "error"
    /\ response_status' = HTTP_400_BAD_REQUEST
    /\ response_error' = "Validation failed"
    /\ UNCHANGED <<threadVars, filterVars, ingestVars, request_data, validated_data, optimizer_invoked,
                   geocode_requests, address_coords, route_requests, route_reply, route_distance,
                   on_route_stations, dp, parent, i, producer, g,
                   prev_chainage, current_range, optimal_stops, result>>

\* RouteView.post: the valid request; optimize_fuel_route_v2(start, end) is
\* called with the validated strings
PostValid ==
    /\ pc = "post"
    /\ IsValid(request_data)
    /\ validated_data' = ValidatedData(request_data)
    /\ optimizer_invoked' = TRUE
    /\ pc' = "geocode_start"
    /\ UNCHANGED <<threadVars, filterVars, ingestVars, request_data, geocode_requests, address_coords, route_requests, route_reply,
                   response_error, route_distance, on_route_stations, dp,
                   parent, i, producer, g, prev_chainage, current_range,
                   optimal_stops, result, response_status>>

\* the address being geocoded
Geocoding == IF pc = "geocode_start" THEN "start" ELSE "end"

\* one more request for the address being geocoded
OneMoreRequest ==
    [geocode_requests EXCEPT ![Geocoding] = geocode_requests[Geocoding] + 1]

\* geocode_address: the geocoder returns a location
GeocodeFound ==
    /\ pc \in {"geocode_start", "geocode_end"}
    /\ geocode_requests' = OneMoreRequest
    /\ address_coords' = [address_coords EXCEPT ![Geocoding] = "found"]
    /\ pc' = IF pc = "geocode_start" THEN "geocode_end" ELSE "get_route"
    /\ UNCHANGED <<threadVars, filterVars, ingestVars, request_data, validated_data, optimizer_invoked,
                   route_requests, route_reply, response_error, route_distance,
                   on_route_stations, dp, parent, i, producer, g,
                   prev_chainage, current_range, optimal_stops, result,
                   response_status>>

\* the rate limiter: the request ended in a geocoder service error and is
\* sent again
GeocodeRetry ==
    /\ pc \in {"geocode_start", "geocode_end"}
    /\ geocode_requests' = OneMoreRequest
    /\ RetryAfter("service_error", geocode_requests'[Geocoding])
    /\ UNCHANGED <<threadVars, filterVars, ingestVars, pc, address_coords, request_data, validated_data, optimizer_invoked,
                   route_requests, route_reply, response_error, route_distance,
                   on_route_stations, dp, parent, i, producer, g,
                   prev_chainage, current_range, optimal_stops, result,
                   response_status>>

\* get_route_from_addresses without its 'if not start_coords' /
\* 'if not end_coords' checks: a lookup that returned None is followed by
\* the next call
GeocodeFailsIgnored ==
    /\ pc \in {"geocode_start", "geocode_end"}
    /\ geocode_requests' = OneMoreRequest
    /\ \E outcome \in GeocodeOutcomes \ {"found"} :
           ~RetryAfter(outcome, geocode_requests'[Geocoding])
    /\ pc' = IF pc = "geocode_start" THEN "geocode_end" ELSE "get_route"
    /\ UNCHANGED <<threadVars, filterVars, ingestVars, address_coords, request_data,
                   validated_data, optimizer_invoked, route_requests, route_reply,
                   response_error, route_distance, on_route_stations, dp,
                   parent, i, producer, g, prev_chainage, current_range,
                   optimal_stops, result, response_status>>

\* geocode_address returns None (no result, the last service error swallowed
\* by the rate limiter, any other exception caught); get_route_from_addresses
\* raises ValueError and RouteView.post answers 400
GeocodeFails ==
    /\ pc \in {"geocode_start", "geocode_end"}
    /\ geocode_requests' = OneMoreRequest
    /\ \E outcome \in GeocodeOutcomes \ {"found"} :
           ~RetryAfter(outcome, geocode_requests'[Geocoding])
    /\ pc' = "error"
    /\ response_status' = HTTP_400_BAD_REQUEST
    /\ response_error' = GeocodeErrorMessage(Geocoding)
    /\ UNCHANGED <<threadVars, filterVars, ingestVars, address_coords, request_data,
                   validated_data, optimizer_invoked,
                   route_requests, route_reply, route_distance, on_route_stations, dp,
                   parent, i, producer, g, prev_chainage, current_range,
                   optimal_stops, result>>

RequestNext ==
    \/ PostInvalid
    \/ PostValid
    \/ GeocodeFound
    \/ GeocodeRetry
    \/ GeocodeFails
    \/ GetRouteOk
    \/ GetRouteFails
    \/ GetRouteRaises

RequestSpec == RequestInit /\ [][RequestNext]_vars

---------------------------------------------------------------------------
(* The corridor filter, find_stations_along_route.  The route is a polyline *)
(* of segments; a station has, for every segment, the chainage of its       *)
(* nearest point along the segment and its cross-track distance to it.      *)

MAX_ROUTE_DISTANCE_MILES == 15

MaxSegments == 2

MaxCatalog == 2

\* the lengths a segment can have
SegmentLengths == {Miles(300) + 4, Miles(500)}

\* route.distance_miles: the distance field of the routing server's reply,
\* in miles, rounded to two decimals. It is a field of its own: the
\* coordinates of the reply do not determine it, and the filter is not
\* given it. 300.0 is round(300.004, 2).
ReportedDistances ==
    {Miles(300), Miles(300) + 10, Miles(500), Miles(800), Miles(1000)}

Polylines == UNION {[1..len -> SegmentLengths] : len \in 1..MaxSegments}

\* the length of a polyline: the sum of its segments
RECURSIVE PolylineLength(_)
PolylineLength(line) ==
    IF line = <<>> THEN 0
    ELSE line[Len(line)] + PolylineLength(SubSeq(line, 1, Len(line) - 1))

\* the chainage at which segment seg starts
SegmentStart(line, seg) == PolylineLength(SubSeq(line, 1, seg - 1))

\* the nearest point of a station on one segment: at its start or at its
\* end, at the corridor half-width or just beyond it
Projections(length) ==
    [along : {0, length},
     cross : {Miles(MAX_ROUTE_DISTANCE_MILES), Miles(MAX_ROUTE_DISTANCE_MILES) + 1}]

\* the geocoded stations of a route: a price and one projection per segment
CatalogStations(line) ==
    {[retail_price |-> p, proj |-> pr] :
        p \in {Price(2, 90000), Price(3, 0)},
        pr \in {f \in [1..Len(line) -> UNION {Projections(l) : l \in SegmentLengths}] :
                   \A seg \in 1..Len(line) : f[seg] \in Projections(line[seg])}}

\* FuelStation.objects.filter(geocoded=True).order_by('retail_price')
OrderedByPrice(cat) ==
    \A k \in 1..(Len(cat) - 1) : cat[k].retail_price <= cat[k + 1].retail_price

Catalogs(line) ==
    {cat \in UNION {[1..len -> CatalogStations(line)] : len \in 0..MaxCatalog} :
        OrderedByPrice(cat)}

\* chainage and lateral offset of a station on every segment
SegmentOffsets(line, st) ==
    {[chainage |-> SegmentStart(line, seg) + st.proj[seg].along,
      lateral_offset |-> st.proj[seg].cross] : seg \in 1..Len(line)}

\* the minimum cross-track distance over all segments and its chainage, ties
\* broken by the smaller chainage
Project(line, st) ==
    CHOOSE best \in SegmentOffsets(line, st) :
        \A other \in SegmentOffsets(line, st) :
            \/ best.lateral_offset < other.lateral_offset
            \/ /\ best.lateral_offset = other.lateral_offset
               /\ best.chainage <= other.chainage

\* a station is retained iff its lateral offset is within the half-width
InCorridor(line, st, max_distance_miles) ==
    Project(line, st).lateral_offset <= Miles(max_distance_miles)

\* the output order: ascending chainage, equal chainages by ascending price,
\* then as in the catalog
ComesBefore(line, cat, a, b) ==
    \/ Project(line, cat[a]).chainage < Project(line, cat[b]).chainage
    \/ /\ Project(line, cat[a]).chainage = Project(line, cat[b]).chainage
       /\ \/ cat[a].retail_price < cat[b].retail_price
          \/ cat[a].retail_price = cat[b].retail_price /\ a <= b

\* the catalog positions S in output order
RECURSIVE SortPositions(_, _, _)
SortPositions(line, cat, S) ==
    IF S = {} THEN <<>>
    ELSE LET first == CHOOSE a \in S : \A b \in S : ComesBefore(line, cat, a, b)
         IN  <<first>> \o SortPositions(line, cat, S \ {first})

\* the catalog positions of the stations returned, in output order
RetainedPositions(line, cat, max_distance_miles) ==
    SortPositions(line, cat,
                  {k \in 1..Len(cat) : InCorridor(line, cat[k], max_distance_miles)})

\* the (station, chainage) pairs handed to the planner
OnRouteStations(line, cat, positions) ==
    [k \in 1..Len(positions) |->
        [chainage |-> Project(line, cat[positions[k]]).chainage,
         retail_price |-> cat[positions[k]].retail_price]]

FilterInit ==
    /\ pc = "filter"
    /\ SingleRequest
    /\ polyline \in Polylines
    /\ catalog \in Catalogs(polyline)
    /\ retained = <<>>
    /\ route_distance \in ReportedDistances
    /\ on_route_stations = <<>>
    /\ dp = <<>>
    /\ parent = <<>>
    /\ i = 0
    /\ producer = "none"
    /\ g = 0
    /\ prev_chainage = 0
    /\ current_range = 0
    /\ optimal_stops = <<>>
    /\ result = PendingResult
    /\ response_status = 0
    /\ request_data = [start |-> Str(0, 1, 0), end |-> Str(0, 1, 0)]
    /\ validated_data = [start |-> Str(0, 1, 0), end |-> Str(0, 1, 0)]
    /\ optimizer_invoked = TRUE
    /\ geocode_requests = [start |-> 1, end |-> 1]
    /\ address_coords = [start |-> "found", end |-> "found"]
    /\ route_requests = 1
    /\ route_reply = "route"
    /\ response_error = ""
    /\ IngestIdle

\* optimize_route step 4: find_stations_along_route(route.coordinates,
\* stations, max_distance_miles=MAX_ROUTE_DISTANCE_MILES)
FindStationsAlongRoute ==
    /\ pc = "filter"
    /\ retained' = RetainedPositions(polyline, catalog, MAX_ROUTE_DISTANCE_MILES)
    /\ on_route_stations' = OnRouteStations(polyline, catalog, retained')
    /\ pc' = "filtered"
    /\ UNCHANGED <<threadVars, polyline, catalog, route_distance, dp, parent, i, producer,
                   g, prev_chainage, current_range, optimal_stops, result,
                   response_status, requestVars, ingestVars>>

FilterNext ==
    \/ FindStationsAlongRoute
    \/ CreateEmptyResult

FilterSpec == FilterInit /\ [][FilterNext]_vars

---------------------------------------------------------------------------
(* A run of the load_fuel_stations command: Command.handle, which imports *)
(* the CSV and calls geocode_stations                                      *)

MaxRows == 2

TX == <<"T", "X">>

\* the (city, state) pairs of the stations considered: two plain cities, a
\* city name with a comma in it, and two Canadian provinces, one of them
\* written in lower case
LocationSet ==
    {[city |-> <<"P">>, state |-> TX],
     [city |-> <<"Q">>, state |-> TX],
     [city |-> <<"P", ",", "Q">>, state |-> TX],
     [city |-> <<"P">>, state |-> <<"A", "B">>],
     [city |-> <<"Q">>, state |-> <<"o", "n">>]}

OAK == <<"1", " ", "O", "A", "K">>
ELM == <<"2", " ", "E", "L", "M">>

\* the truck stops: one at every location, a second name at P, TX, and a
\* second address of the first name at P, TX
TruckstopSet ==
    {[truckstop_name |-> <<"A">>, address |-> OAK, city |-> loc.city,
      state |-> loc.state] : loc \in LocationSet}
    \cup {[truckstop_name |-> <<"B">>, address |-> OAK, city |-> <<"P">>,
           state |-> TX],
          [truckstop_name |-> <<"A">>, address |-> ELM, city |-> <<"P">>,
           state |-> TX]}

\* FuelStation(opis_truckstop_id=..., truckstop_name=..., address=...,
\* city=..., state=..., retail_price=..., geocoded=False): a station as the
\* import creates it
NewStation(stop, id, price) ==
    [opis_truckstop_id |-> id, truckstop_name |-> stop.truckstop_name,
     address |-> stop.address, city |-> stop.city, state |-> stop.state,
     retail_price |-> price, geocoded |-> FALSE,
     latitude |-> Null, longitude |-> Null]

\* a station of an earlier import, not geocoded yet
Ungeocoded(stop) == NewStation(stop, 7, Price(3, 0))

\* a station geocoded by an earlier run
AlreadyGeocoded ==
    [opis_truckstop_id |-> 7, truckstop_name |-> <<"A">>, address |-> OAK,
     city |-> <<"P">>, state |-> TX, retail_price |-> Price(3, 0),
     geocoded |-> TRUE, latitude |-> 9, longitude |-> 9]

RowSet == {Ungeocoded(stop) : stop \in TruckstopSet} \cup {AlreadyGeocoded}

Digits == <<"0", "1", "2", "3", "4", "5", "6", "7", "8", "9">>

IsDigit(c) == \E k \in 1..10 : Digits[k] = c

\* ord(c), for the characters of the inputs
Ord(c) ==
    IF c = " " THEN 32
    ELSE IF c = "+" THEN 43
    ELSE IF c = "," THEN 44
    ELSE IF c = "-" THEN 45
    ELSE IF c = "_" THEN 95
    ELSE IF IsDigit(c) THEN 47 + CHOOSE k \in 1..10 : Digits[k] = c
    ELSE IF \E k \in 1..26 : UpperCase[k] = c
    THEN 64 + CHOOSE k \in 1..26 : UpperCase[k] = c
    ELSE 96 + CHOOSE k \in 1..26 : LowerCase[k] = c

\* a < b for two strings: decided by the first character that differs, a
\* string coming after its proper prefixes
StrLess(a, b) ==
    \E k \in 1..Len(b) :
        /\ \A m \in 1..(k - 1) : m <= Len(a) /\ a[m] = b[m]
        /\ (k > Len(a) \/ Ord(a[k]) < Ord(b[k]))

\* the group key of df.groupby(['truckstop_name', 'address', 'city',
\* 'state']), which is also the unique_together of the table
GroupKey(row) == <<row.truckstop_name, row.address, row.city, row.state>>

\* x < y for two group keys, as tuples
KeyLess(x, y) ==
    \E k \in 1..4 :
        /\ \A m \in 1..(k - 1) : x[m] = y[m]
        /\ StrLess(x[k], y[k])

\* the table as an import left it and geocoding runs may have updated it:
\* the rows in the order of their creation, which is the order of the
\* group keys, no two rows with the same key (unique_together)
StationTables ==
    {table \in UNION {[1..len -> RowSet] : len \in 0..MaxRows} :
        \A a, b \in DOMAIN table :
            a < b => KeyLess(GroupKey(table[a]), GroupKey(table[b]))}

\* a row of the CSV: the cell of 'OPIS Truckstop ID' as it is written
CsvRow(stop, id, price) ==
    [opis_truckstop_id |-> id, truckstop_name |-> stop.truckstop_name,
     address |-> stop.address, city |-> stop.city, state |-> stop.state,
     retail_price |-> price]

\* the rows of data/fuel_prices.csv: every truck stop at one price, the
\* first truck stop of P, TX at a lower price as well, under other ids, one
\* written with a space, a sign and an underscore (int() reads it as 12),
\* one negative, and one with two underscores in a row, which int()
\* refuses; the second truck stop also with an id that is not a number
CsvRowSet ==
    {CsvRow(stop, <<"7">>, Price(3, 0)) : stop \in TruckstopSet}
    \cup {CsvRow([truckstop_name |-> <<"A">>, address |-> OAK,
                  city |-> <<"P">>, state |-> TX], id, Price(2, 90000)) :
          id \in {<<" ", "+", "1", "_", "2">>, <<"-", "7", " ">>,
                  <<"1", "_", "_", "2">>}}
    \cup {CsvRow([truckstop_name |-> <<"B">>, address |-> OAK,
                  city |-> <<"P">>, state |-> TX], <<"X">>, Price(3, 0))}

\* pd.read_csv(csv_path): the rows of the file, in the order of the file
CsvFiles == UNION {[1..len -> CsvRowSet] : len \in 0..MaxRows}

\* the coordinates a lookup can return
CoordSet == {<<40, 70>>, <<41, 71>>}

\* FuelStation.objects.filter(geocoded=False).values('city', 'state').distinct()
UngeocodedLocations(table) ==
    {[city |-> table[r].city, state |-> table[r].state] :
        r \in {q \in DOMAIN table : ~table[q].geocoded}}

\* the rows of a query without ORDER BY come in any order
Orderings(S) ==
    {seq \in [1..Cardinality(S) -> S] :
        \A a, b \in 1..Cardinality(S) : a # b => seq[a] # seq[b]}

\* the groups of df.groupby(...), as_index=False: one for each key, in
\* ascending order of the keys
GroupKeys(df) == {GroupKey(df[r]) : r \in DOMAIN df}

SortedGroupKeys(df) ==
    CHOOSE seq \in Orderings(GroupKeys(df)) :
        \A a, b \in DOMAIN seq : a < b => KeyLess(seq[a], seq[b])

\* the rows of a group, in the order of the file
GroupRows(df, key) == SelectSeq(df, LAMBDA row : GroupKey(row) = key)

\* .agg({'opis_truckstop_id': 'first'}): the cell of the first row of a group
FirstOpisTruckstopId(df, key) == GroupRows(df, key)[1].opis_truckstop_id

\* .agg({'retail_price': 'min'}): the least price of the rows of a group
MinRetailPrice(df, key) ==
    LET prices == {GroupRows(df, key)[r].retail_price :
                      r \in DOMAIN GroupRows(df, key)}
    IN  CHOOSE price \in prices : \A other \in prices : price <= other

\* the cell without the whitespace around it, as int() reads a string
RECURSIVE StripCell(_)
StripCell(cell) ==
    IF cell = <<>> THEN cell
    ELSE IF Head(cell) = " " THEN StripCell(Tail(cell))
    ELSE IF cell[Len(cell)] = " " THEN StripCell(SubSeq(cell, 1, Len(cell) - 1))
    ELSE cell

\* a string without the sign it may start with
Unsigned(str) ==
    IF str # <<>> /\ str[1] \in {"+", "-"} THEN Tail(str) ELSE str

\* int() accepts the cell: after the whitespace around it and one sign,
\* decimal digits, with single underscores between two digits
IsDecimal(cell) ==
    LET body == Unsigned(StripCell(cell))
    IN  /\ body # <<>>
        /\ \A k \in DOMAIN body :
              \/ IsDigit(body[k])
              \/ /\ body[k] = "_"
                 /\ 1 < k /\ k < Len(body)
                 /\ IsDigit(body[k - 1]) /\ IsDigit(body[k + 1])

\* the value of a string of decimal digits
RECURSIVE DigitsValue(_)
DigitsValue(str) ==
    IF str = <<>> THEN 0
    ELSE 10 * DigitsValue(SubSeq(str, 1, Len(str) - 1))
            + (Ord(str[Len(str)]) - Ord("0"))

\* int(row['opis_truckstop_id']) of a cell int() accepts: the digits give
\* the value, the underscores are dropped, the sign applies
IntOf(cell) ==
    LET value == DigitsValue(SelectSeq(Unsigned(StripCell(cell)), IsDigit))
    IN  IF StripCell(cell)[1] = "-" THEN 0 - value ELSE value

\* the loop over grouped.iterrows() raises ValueError: the id of some group
\* is not a number
IdRaises(df) ==
    \E key \in GroupKeys(df) : ~IsDecimal(FirstOpisTruckstopId(df, key))

\* stations_to_create: one un-geocoded station for each group
StationsToCreate(df) ==
    [k \in DOMAIN SortedGroupKeys(df) |->
        LET key == SortedGroupKeys(df)[k]
        IN  NewStation([truckstop_name |-> key[1], address |-> key[2],
                        city |-> key[3], state |-> key[4]],
                       IntOf(FirstOpisTruckstopId(df, key)),
                       MinRetailPrice(df, key))]

\* the command starts: any flags, on the table the earlier runs left
IngestInit ==
    /\ pc = "handle"
    /\ SingleRequest
    /\ options \in [geocode_only : BOOLEAN, skip_geocoding : BOOLEAN]
    /\ stations \in StationTables
    /\ unique_locations = <<>>
    /\ idx = 0
    /\ attempt = 0
    /\ coords_cache = EmptyCache
    /\ failed_locations = <<>>
    /\ outcomes = <<>>
    /\ backoffs = <<>>
    /\ waited = NoGap
    /\ last_gap = NoGap
    /\ request_data = NoData
    /\ validated_data = NoData
    /\ optimizer_invoked = FALSE
    /\ geocode_requests = [start |-> 0, end |-> 0]
    /\ address_coords = [start |-> "None", end |-> "None"]
    /\ route_requests = 0
    /\ route_reply = "none"
    /\ response_error = ""
    /\ route_distance = 0
    /\ on_route_stations = <<>>
    /\ dp = <<>>
    /\ parent = <<>>
    /\ i = 0
    /\ producer = "none"
    /\ g = 0
    /\ prev_chainage = 0
    /\ current_range = 0
    /\ optimal_stops = <<>>
    /\ result = PendingResult
    /\ response_status = 0
    /\ FilterIdle

plannerVars == <<route_distance, on_route_stations, dp, parent, i, producer,
                 g, prev_chainage, current_range, optimal_stops, result,
                 response_status>>

\* where handle goes after the import or its skipping: "if not
\* options['skip_geocoding']: self.geocode_stations(...)", else the summary
AfterImport == IF options.skip_geocoding THEN "finished" ELSE "collect"

\* handle with --geocode-only on an empty table: "No stations in
\* database!", return
NoStationsInDatabase ==
    /\ pc = "handle"
    /\ options.geocode_only
    /\ Len(stations) = 0
    /\ pc' = "finished"
    /\ UNCHANGED <<threadVars, ingestVars, requestVars, plannerVars, filterVars>>

\* handle with --geocode-only: the CSV import is skipped
SkipCsvImport ==
    /\ pc = "handle"
    /\ options.geocode_only
    /\ Len(stations) # 0
    /\ pc' = AfterImport
    /\ UNCHANGED <<threadVars, ingestVars, requestVars, plannerVars, filterVars>>

\* handle without --geocode-only, and data/fuel_prices.csv is missing
\* (pd.read_csv raises FileNotFoundError) or the id of a group is not a
\* number (int() raises ValueError while stations_to_create is built): the
\* exception leaves handle before the transaction, the table is as it was
ImportRaises ==
    /\ pc = "handle"
    /\ ~options.geocode_only
    /\ \E exists \in BOOLEAN, df \in CsvFiles : ~exists \/ IdRaises(df)
    /\ pc' = "import_raised"
    /\ UNCHANGED <<threadVars, ingestVars, requestVars, plannerVars, filterVars>>

\* handle without --geocode-only: the CSV is read and grouped, and in one
\* transaction every row of the table is deleted and the grouped stations
\* are created
ImportCsv ==
    /\ pc = "handle"
    /\ ~options.geocode_only
    /\ \E df \in CsvFiles :
          /\ ~IdRaises(df)
          /\ stations' = StationsToCreate(df)
    /\ pc' = AfterImport
    /\ UNCHANGED <<threadVars, options, unique_locations, idx, attempt,
                   coords_cache, failed_locations, outcomes, backoffs, waited,
                   last_gap, requestVars, plannerVars, filterVars>>

\* geocode_stations: "if total_locations == 0: return"
NothingToGeocode ==
    /\ pc = "collect"
    /\ UngeocodedLocations(stations) = {}
    /\ pc' = "finished"
    /\ UNCHANGED <<threadVars, ingestVars, requestVars, plannerVars, filterVars>>

\* the un-geocoded locations are read, the loop starts with idx = 1
CollectLocations ==
    /\ pc = "collect"
    /\ UngeocodedLocations(stations) # {}
    /\ unique_locations' \in Orderings(UngeocodedLocations(stations))
    /\ idx' = 1
    /\ pc' = "loop"
    /\ UNCHANGED <<threadVars, options, stations, attempt, coords_cache, failed_locations, outcomes,
                   backoffs, waited, last_gap, requestVars, plannerVars, filterVars>>

\* the location the loop is at
location == unique_locations[idx]

\* where the loop over the locations goes after the current one
AfterLocation ==
    IF idx + 1 > Len(unique_locations) THEN "update" ELSE "loop"

\* "if state.upper() in canadian_provinces": the entry and "continue"
SkipCanadian ==
    /\ pc = "loop"
    /\ IsCanadian(location.state)
    /\ failed_locations' =
           Append(failed_locations, CanadaEntry(location.city, location.state))
    /\ outcomes' = <<>>
    /\ backoffs' = <<>>
    /\ idx' = idx + 1
    /\ pc' = AfterLocation
    /\ UNCHANGED <<threadVars, options, stations, unique_locations, attempt, coords_cache, waited,
                   last_gap, requestVars, plannerVars, filterVars>>

\* a location that is looked up: the attempt loop starts
BeginLocation ==
    /\ pc = "loop"
    /\ ~IsCanadian(location.state)
    /\ attempt' = 0
    /\ outcomes' = <<>>
    /\ backoffs' = <<>>
    /\ pc' = "attempt"
    /\ UNCHANGED <<threadVars, options, stations, unique_locations, idx, coords_cache,
                   failed_locations, waited, last_gap, requestVars,
                   plannerVars, filterVars>>

\* one pass of "for attempt in range(max_attempts)": the rate-limit sleep,
\* the request, and what the code does with its outcome
Attempt(outcome, coords) ==
    /\ pc = "attempt"
    /\ last_gap' = IF waited = NoGap THEN NoGap
                   ELSE waited + RateLimitSleep(idx, attempt)
    /\ outcomes' = Append(outcomes, outcome)
    /\ coords_cache' =
           IF outcome = "success"
           THEN (CacheKey(location.city, location.state) :> coords)
                    @@ coords_cache
           ELSE coords_cache
    /\ failed_locations' =
           IF RecordsFailure(outcome, attempt)
           THEN Append(failed_locations, Query(location.city, location.state))
           ELSE failed_locations
    /\ backoffs' = IF BacksOff(outcome, attempt)
                   THEN Append(backoffs, WaitTime(attempt)) ELSE backoffs
    /\ waited' = IF BacksOff(outcome, attempt) THEN WaitTime(attempt) ELSE 0
    /\ IF LoopContinues(outcome, attempt)
       THEN attempt' = attempt + 1 /\ idx' = idx /\ pc' = "attempt"
       ELSE attempt' = attempt /\ idx' = idx + 1 /\ pc' = AfterLocation
    /\ UNCHANGED <<threadVars, options, stations, unique_locations, requestVars, plannerVars, filterVars>>

\* "if result": the coordinates go to the cache, break
AttemptSuccess == \E coords \in CoordSet : Attempt("success", coords)

\* "else": no result; recorded as failed on the last attempt only
AttemptNoResult == Attempt("none", <<Null, Null>>)

\* "except (GeocoderTimedOut, GeocoderUnavailable)"
AttemptTransient == Attempt("transient", <<Null, Null>>)

\* "except Exception": recorded as failed, break
AttemptOtherError == Attempt("other", <<Null, Null>>)

\* the update step, every key unpacking into city and state
UpdateStations ==
    /\ pc = "update"
    /\ AllKeysUnpack(coords_cache)
    /\ stations' = UpdatedStations(stations, coords_cache)
    /\ pc' = "finished"
    /\ UNCHANGED <<threadVars, options, unique_locations, idx, attempt, coords_cache,
                   failed_locations, outcomes, backoffs, waited, last_gap,
                   requestVars, plannerVars, filterVars>>

\* the update step when "city, state = cache_key.split(',')" raises
\* ValueError: transaction.atomic() rolls back and the command ends there
UpdateRaises ==
    /\ pc = "update"
    /\ ~AllKeysUnpack(coords_cache)
    /\ pc' = "crashed"
    /\ UNCHANGED <<threadVars, ingestVars, requestVars, plannerVars, filterVars>>

IngestNext ==
    \/ NoStationsInDatabase
    \/ SkipCsvImport
    \/ ImportCsv
    \/ ImportRaises
    \/ NothingToGeocode
    \/ CollectLocations
    \/ SkipCanadian
    \/ BeginLocation
    \/ AttemptSuccess
    \/ AttemptNoResult
    \/ AttemptTransient
    \/ AttemptOtherError
    \/ UpdateStations
    \/ UpdateRaises

IngestSpec == IngestInit /\ [][IngestNext]_vars

---------------------------------------------------------------------------
(* Several planning requests served by threads of one process.  They share *)
(* the singletons optimized_fuel_optimizer and routing_service; the        *)
(* planner variables are the locals of the thread that is executing, and   *)
(* a thread that waits keeps its locals.                                   *)

NThreads == 2

Threads == 1..NThreads

\* the requests considered, as (route distance, list of the filter): no
\* station; a reachable destination with one and with two candidate plans;
\* a destination out of reach, which goes to the greedy pass
ConcurrentInputs ==
    {[route_distance |-> Miles(300), on_route_stations |-> <<>>],
     [route_distance |-> Miles(1000),
      on_route_stations |->
          <<[chainage |-> Miles(450), retail_price |-> Price(3, 0)],
            [chainage |-> Miles(500), retail_price |-> Price(2, 90000)]>>],
     [route_distance |-> Miles(1000),
      on_route_stations |->
          <<[chainage |-> Miles(450), retail_price |-> Price(2, 80000)],
            [chainage |-> Miles(900), retail_price |-> Price(3, 0)]>>],
     [route_distance |-> Miles(1200),
      on_route_stations |->
          <<[chainage |-> Miles(100), retail_price |-> Price(2, 90000)],
            [chainage |-> Miles(500), retail_price |-> Price(3, 0)]>>]}

\* the locals of a request that has its route and its on-route stations
StartFrame(input) ==
    [pc |-> "filtered", route_distance |-> input.route_distance,
     on_route_stations |-> input.on_route_stations, dp |-> <<>>,
     parent |-> <<>>, i |-> 0, producer |-> "none", g |-> 0,
     prev_chainage |-> 0, current_range |-> 0, optimal_stops |-> <<>>,
     result |-> PendingResult, response_status |-> 0]

\* the locals of the thread that is executing
Frame ==
    [pc |-> pc, route_distance |-> route_distance,
     on_route_stations |-> on_route_stations, dp |-> dp, parent |-> parent,
     i |-> i, producer |-> producer, g |-> g,
     prev_chainage |-> prev_chainage, current_range |-> current_range,
     optimal_stops |-> optimal_stops, result |-> result,
     response_status |-> response_status]

\* the marker in 'parked' at the place of the thread that is executing
Executing == [pc |-> "executing"]

\* dp and parent kept on the shared optimizer object: a thread that resumes
\* finds the arrays as the last thread left them
ResumeSharedTable(frame) == [frame EXCEPT !.dp = dp, !.parent = parent]

\* what a thread finds when it resumes: dp, parent and every other variable
\* of optimize_route, _find_optimal_stops_dp and _greedy_fallback are locals
\* of the call, and the optimizer object holds only self.routing
Resume(frame) == frame

\* the interpreter hands over from the executing thread to thread t
Switch(t) ==
    /\ t # running
    /\ running' = t
    /\ parked' = [parked EXCEPT ![running] = Frame, ![t] = Executing]
    /\ LET frame == Resume(parked[t])
       IN /\ pc' = frame.pc
          /\ route_distance' = frame.route_distance
          /\ on_route_stations' = frame.on_route_stations
          /\ dp' = frame.dp
          /\ parent' = frame.parent
          /\ i' = frame.i
          /\ producer' = frame.producer
          /\ g' = frame.g
          /\ prev_chainage' = frame.prev_chainage
          /\ current_range' = frame.current_range
          /\ optimal_stops' = frame.optimal_stops
          /\ result' = frame.result
          /\ response_status' = frame.response_status
    /\ UNCHANGED <<inputs, filterVars, ingestVars, requestVars>>

ThreadSwitch == \E t \in Threads : Switch(t)

ConcurrentInit ==
    /\ inputs \in [Threads -> ConcurrentInputs]
    /\ running = 1
    /\ parked = [t \in Threads |->
                    IF t = 1 THEN Executing ELSE StartFrame(inputs[t])]
    /\ pc = "filtered"
    /\ route_distance = inputs[1].route_distance
    /\ on_route_stations = inputs[1].on_route_stations
    /\ dp = <<>>
    /\ parent = <<>>
    /\ i = 0
    /\ producer = "none"
    /\ g = 0
    /\ prev_chainage = 0
    /\ current_range = 0
    /\ optimal_stops = <<>>
    /\ result = PendingResult
    /\ response_status = 0
    /\ request_data = [start |-> Str(0, 1, 0), end |-> Str(0, 1, 0)]
    /\ validated_data = [start |-> Str(0, 1, 0), end |-> Str(0, 1, 0)]
    /\ optimizer_invoked = TRUE
    /\ geocode_requests = [start |-> 1, end |-> 1]
    /\ address_coords = [start |-> "found", end |-> "found"]
    /\ route_requests = 1
    /\ route_reply = "route"
    /\ response_error = ""
    /\ IngestIdle
    /\ FilterIdle

ConcurrentNext ==
    \/ CreateEmptyResult
    \/ BeginDP
    \/ DPRelax
    \/ DPBacktrack
    \/ DPFallback
    \/ GreedyStep
    \/ GreedyReturn
    \/ Totals
    \/ ThreadSwitch

ConcurrentSpec == ConcurrentInit /\ [][ConcurrentNext]_vars

---------------------------------------------------------------------------
(* Vocabulary of the properties *)

Range == Miles(VEHICLE_RANGE_MILES)

n == Len(on_route_stations)

\* the DP table is complete
TableComplete == pc = "dp" /\ i > END_IDX(on_route_stations)

\* the stops have been produced and returned to optimize_route
PlanProduced == pc \in {"totals", "done"} /\ producer # "none"

\* the request ended with a plan
Done == pc = "done" /\ response_status = HTTP_200_OK

\* chainage of the station a stop was made at
StopChainage(stop) == on_route_stations[stop.station].chainage

\* 0, the stop chainages, route_distance
Positions(stops) ==
    <<0>> \o [k \in 1..Len(stops) |-> StopChainage(stops[k])]
          \o <<route_distance>>

\* the range as a float
RangeFloat == FloatOf(VEHICLE_RANGE_MILES, 1)

\* the leg from position a to position b >= a: the difference of the two
\* floats as the program computes it
Leg(a, b) == DistanceBetween(a, b)

\* the leg from a to b exceeds the range
LegOverRange(a, b) == FloatLess(RangeFloat, Leg(a, b))

\* some consecutive gap of a sequence of positions exceeds the range
HasGapOverRange(pos) ==
    \E k \in 1..(Len(pos) - 1) : LegOverRange(pos[k], pos[k + 1])

\* the stations of a set of list indices, as positions in list order
RECURSIVE IndexSeq(_)
IndexSeq(S) ==
    IF S = {} THEN <<>>
    ELSE LET m == CHOOSE x \in S : \A y \in S : x <= y
         IN <<m>> \o IndexSeq(S \ {m})

SubsetPositions(S) ==
    LET chosen == IndexSeq(S)
    IN <<0>> \o [k \in 1..Len(chosen) |-> on_route_stations[chosen[k]].chainage]
             \o <<route_distance>>

\* full-tank cost model: each stop costs (range/efficiency) x price
RECURSIVE SubsetCost(_)
SubsetCost(S) ==
    IF S = {} THEN 0
    ELSE LET m == CHOOSE x \in S : TRUE
         IN (VEHICLE_RANGE_MILES \div FUEL_EFFICIENCY_MPG)
               * on_route_stations[m].retail_price
            + SubsetCost(S \ {m})

StopStations(stops) == {stops[k].station : k \in 1..Len(stops)}

---------------------------------------------------------------------------
(* Properties *)

\* C1 - DP optimality: when the DP finds END reachable, no set of stations
\* whose consecutive gaps (with 0 and route_distance) are all within the
\* range costs strictly less, at (range/efficiency) x price per stop, than
\* the stops the DP returns.
DPOptimality ==
    (PlanProduced /\ producer = "dp") =>
        \A S \in SUBSET (1..n) :
            ~HasGapOverRange(SubsetPositions(S)) =>
                SubsetCost(S) >= SubsetCost(StopStations(optimal_stops))

\* a DP plan exists although a cheaper-looking station had to be left out
\* and a dearer feasible alternative exists; a feasible alternative of fewer
\* stops costs the same, and the float sums of the table preferred the plan
DPOptimalityWitness ==
    /\ PlanProduced /\ producer = "dp"
    /\ Len(optimal_stops) >= 2
    /\ Len(optimal_stops) = Cardinality(StopStations(optimal_stops))
    /\ \E S \in SUBSET (1..n) :
          /\ ~HasGapOverRange(SubsetPositions(S))
          /\ SubsetCost(S) = SubsetCost(StopStations(optimal_stops))
          /\ Cardinality(S) < Len(optimal_stops)
    /\ \E S \in SUBSET (1..n) :
          /\ ~HasGapOverRange(SubsetPositions(S))
          /\ SubsetCost(S) > SubsetCost(StopStations(optimal_stops))
    /\ \E S \in SUBSET (1..n) :
          /\ HasGapOverRange(SubsetPositions(S))
          /\ SubsetCost(S) < SubsetCost(StopStations(optimal_stops))

\* C2 - Range respect (DP path only): in a plan produced by the DP, every
\* consecutive gap of 0, the stop chainages, route_distance is at most the
\* range of 500 miles.
RangeRespectDP ==
    (PlanProduced /\ producer = "dp") =>
        \A k \in 1..(Len(optimal_stops) + 1) :
            ~FloatLess(FloatOf(500, 1),
                       Leg(Positions(optimal_stops)[k],
                           Positions(optimal_stops)[k + 1]))

\* a DP plan with a leg of exactly the range
RangeRespectDPWitness ==
    /\ Done /\ producer = "dp"
    /\ result.fuel_stops # <<>>
    /\ \E k \in 1..(Len(optimal_stops) + 1) :
          Leg(Positions(optimal_stops)[k], Positions(optimal_stops)[k + 1])
              = FloatOf(500, 1)

\* C3 - Short route: if route_distance <= range and the station list is not
\* empty, the plan has zero stops and total_fuel_cost = 0; a route of 300
\* miles reports total_gallons = 30.00.
ShortRoute ==
    (Done /\ on_route_stations # <<>> /\ route_distance <= Range) =>
        /\ result.fuel_stops = <<>>
        /\ result.total_fuel_cost = 0
        /\ (route_distance = Miles(300) => result.total_gallons = 3000)

\* a short route with stations on it has been planned
ShortRouteWitness ==
    /\ Done /\ route_distance = Miles(300)
    /\ Len(on_route_stations) >= 2
    /\ result.fuel_stops = <<>>

\* C4 - Concrete scenario: route_distance 1200, stations at 100 (3.00),
\* 450 (2.80), 900 (2.90): the plan is the stops at 450 (cost 140.00) and
\* 900 (cost 145.00), total_fuel_cost 285.00, total_gallons 120.00.
ScenarioStations ==
    <<[chainage |-> Miles(100), retail_price |-> Price(3, 0)],
      [chainage |-> Miles(450), retail_price |-> Price(2, 80000)],
      [chainage |-> Miles(900), retail_price |-> Price(2, 90000)]>>

ConcreteScenario ==
    (Done /\ route_distance = Miles(1200)
          /\ on_route_stations = ScenarioStations) =>
        /\ Len(result.fuel_stops) = 2
        /\ result.fuel_stops[1].station = 2
        /\ result.fuel_stops[1].miles_from_start = 45000
        /\ result.fuel_stops[1].cost = 14000
        /\ result.fuel_stops[2].station = 3
        /\ result.fuel_stops[2].miles_from_start = 90000
        /\ result.fuel_stops[2].cost = 14500
        /\ result.total_fuel_cost = 28500
        /\ result.total_gallons = 12000

\* the scenario has been planned to the end
ConcreteScenarioWitness ==
    /\ Done /\ route_distance = Miles(1200)
    /\ on_route_stations = ScenarioStations
    /\ producer = "dp"

\* C5 - Empty corridor: with zero on-route stations optimize_route returns,
\* without running the DP or the greedy fallback, a plan with no stops,
\* total_fuel_cost 0, total_gallons = route_distance/efficiency (to the two
\* decimals of the result), method "no_stations" and stations_considered 0,
\* whatever the route distance.
EmptyCorridor ==
    (on_route_stations = <<>> /\ pc \notin {"get_route", "filter", "error"}) =>
        /\ pc \in {"filtered", "done"}
        /\ producer = "none" /\ dp = <<>> /\ parent = <<>> /\ i = 0 /\ g = 0
        /\ pc = "done" =>
              /\ response_status = HTTP_200_OK
              /\ result.fuel_stops = <<>>
              /\ result.total_fuel_cost = 0
              /\ 100 * result.total_gallons - route_distance \in -50..50
              /\ result.optimization_method = "no_stations"
              /\ result.stations_considered = 0

\* an empty plan was returned for a route longer than the range
EmptyCorridorWitness ==
    /\ Done /\ on_route_stations = <<>>
    /\ route_distance > Range
    /\ result.optimization_method = "no_stations"

\* 0, the chainages of all stations in list order, route_distance
AllPositions ==
    <<0>> \o [k \in 1..n |-> on_route_stations[k].chainage]
          \o <<route_distance>>

\* the table has been completed in this request
TableBuilt == TableComplete \/ pc = "greedy" \/ PlanProduced

\* C6 - Fallback trigger: the greedy fallback runs only when dp[END] is
\* unreachable, and dp[END] is unreachable exactly when some consecutive gap
\* of 0, the station chainages, route_distance exceeds the range.
FallbackTrigger ==
    /\ (pc = "greedy" \/ producer = "greedy") => dp[n + 1] = Inf
    /\ TableBuilt =>
          /\ (dp[n + 1] = Inf) <=> HasGapOverRange(AllPositions)
          /\ (dp[n + 1] = Inf) => producer # "dp"

\* the fallback was entered because of a gap between two stations, the
\* final leg being within range; the two stations are 500 miles apart to
\* the thousandth and their difference as floats is above 500
FallbackTriggerWitness ==
    /\ pc = "greedy" /\ g = 1 /\ n >= 2
    /\ ~LegOverRange(on_route_stations[n].chainage, route_distance)
    /\ on_route_stations[1].chainage <= Range
    /\ HasGapOverRange(AllPositions)
    /\ \A k \in 1..(n + 1) : AllPositions[k + 1] - AllPositions[k] <= Range

\* C7 - RangeInfeasible is not an error: once the DP has found no path from
\* start to end, the greedy fallback is entered; its loop is at a station
\* of the list or can return, and the totals are computed only after the
\* whole list; no error response is given, and the request ends with
\* status 200 and the list of stops the greedy fallback returned.
RangeInfeasibleNotAnError ==
    /\ (TableComplete /\ DestinationUnreachable(dp, on_route_stations)) =>
          ENABLED DPFallback
    /\ (pc = "greedy" \/ producer = "greedy") =>
          /\ producer = "greedy"
          /\ pc \in {"greedy", "totals", "done"}
          /\ response_status \notin {HTTP_400_BAD_REQUEST,
                                     HTTP_500_INTERNAL_SERVER_ERROR}
          /\ pc = "greedy" => (g \in 1..n \/ ENABLED GreedyReturn)
          /\ pc = "totals" => g = n + 1
          /\ pc = "done" =>
                /\ response_status = HTTP_200_OK
                /\ result.fuel_stops = optimal_stops
                /\ Len(result.fuel_stops) <= n

\* the fallback returned an empty list and the request still ended normally
RangeInfeasibleNotAnErrorWitness ==
    /\ Done /\ producer = "greedy"
    /\ result.fuel_stops = <<>>
    /\ dp[n + 1] = Inf

\* chainage of the last stop chosen so far, 0 (the start) if there is none
LastStopChainage ==
    IF optimal_stops = <<>> THEN 0
    ELSE StopChainage(optimal_stops[Len(optimal_stops)])

\* C8 - Greedy rule: each step of the greedy pass takes the next station in
\* list order and stops there if and only if its distance from the last
\* chosen stop (from chainage 0 if there is none) is at least 450 miles;
\* after a stop the distance is measured from that station.
GreedyRule ==
    [][(pc = "greedy" /\ g' # g) =>
          /\ g' = g + 1 /\ g <= n
          /\ prev_chainage = LastStopChainage
          /\ IF ~FloatLess(Leg(LastStopChainage, on_route_stations[g].chainage),
                           FloatOf(450, 1))
             THEN /\ Len(optimal_stops') = Len(optimal_stops) + 1
                  /\ SubSeq(optimal_stops', 1, Len(optimal_stops)) = optimal_stops
                  /\ optimal_stops'[Len(optimal_stops')].station = g
                  /\ prev_chainage' = on_route_stations[g].chainage
             ELSE /\ optimal_stops' = optimal_stops
                  /\ prev_chainage' = prev_chainage]_vars

\* the pass stopped at a station exactly 450 miles from the start, after
\* skipping one just short of it, and then skipped a station that is 500
\* miles from the start but 50 from the stop
GreedyRuleWitness ==
    /\ pc = "totals" /\ producer = "greedy"
    /\ n = 3
    /\ on_route_stations[1].chainage = Miles(450) - 1
    /\ on_route_stations[2].chainage = Miles(450)
    /\ on_route_stations[3].chainage = Miles(500)
    /\ StopStations(optimal_stops) = {2}

\* C9 - Unvalidated fallback: a plan of the greedy fallback that has a gap
\* above the range is returned as it is, with status 200; so it is when
\* every station lies less than 450 miles from the start of a route of 950
\* miles or more: the plan returned has no stop at all.
UnvalidatedFallback ==
    /\ (pc = "done" /\ producer = "greedy"
           /\ HasGapOverRange(Positions(optimal_stops))) =>
          /\ response_status = HTTP_200_OK
          /\ result.fuel_stops = optimal_stops
    /\ (pc = "done" /\ n >= 1 /\ route_distance >= Miles(950)
           /\ \A k \in 1..n : on_route_stations[k].chainage < Miles(450)) =>
          /\ producer = "greedy"
          /\ response_status = HTTP_200_OK
          /\ result.fuel_stops = <<>>

\* a returned fallback plan with a stop and a gap above the range
UnvalidatedFallbackWitness ==
    /\ Done /\ producer = "greedy"
    /\ Len(result.fuel_stops) >= 1
    /\ HasGapOverRange(Positions(result.fuel_stops))

\* a stop is a full-tank purchase: 50.00 gallons, at the station's price to
\* the cent
IsFullTankStop(stop) ==
    /\ stop.gallons_needed = 5000
    /\ 1000 * stop.cost - 50 * on_route_stations[stop.station].retail_price
          \in -500..500

\* C10 - Full-tank policy: every stop of every plan, from the DP or from the
\* greedy fallback, has gallons_needed = 50 and cost = 50 x the station's
\* price, whatever the length of the incoming leg.
FullTankPolicy ==
    /\ \A k \in 1..Len(optimal_stops) : IsFullTankStop(optimal_stops[k])
    /\ \A k \in 1..Len(result.fuel_stops) : IsFullTankStop(result.fuel_stops[k])

\* a returned plan with two stops whose incoming legs differ in length
FullTankPolicyWitness ==
    /\ Done /\ Len(result.fuel_stops) = 2
    /\ Positions(result.fuel_stops)[2] - Positions(result.fuel_stops)[1]
          # Positions(result.fuel_stops)[3] - Positions(result.fuel_stops)[2]
    /\ result.fuel_stops[1].cost # result.fuel_stops[2].cost

\* the sum of the costs of the first k stops of a list
RECURSIVE CostOfFirst(_, _)
CostOfFirst(stops, k) ==
    IF k = 0 THEN 0 ELSE CostOfFirst(stops, k - 1) + stops[k].cost

\* C11 - Totals: total_fuel_cost is the sum of the costs of the stops of the
\* plan (0 without stops) and total_gallons is route_distance/efficiency (to
\* the two decimals of the result), however many stops there are.
TotalsOfPlan ==
    Done =>
        /\ result.total_fuel_cost
              = CostOfFirst(result.fuel_stops, Len(result.fuel_stops))
        /\ result.fuel_stops = <<>> => result.total_fuel_cost = 0
        /\ 100 * result.total_gallons - route_distance \in -50..50

\* a plan whose two full tanks (100 gallons) are not the gallons consumed
TotalsOfPlanWitness ==
    /\ Done /\ Len(result.fuel_stops) = 2
    /\ result.total_fuel_cost > 0
    /\ result.total_gallons
          # result.fuel_stops[1].gallons_needed + result.fuel_stops[2].gallons_needed

\* C12 (as stated) - Stop order: the stops of every plan are in strictly
\* increasing order of the chainage the plan reports (miles_from_start).
StopOrderReported ==
    \A k \in 1..(Len(result.fuel_stops) - 1) :
        result.fuel_stops[k].miles_from_start
            < result.fuel_stops[k + 1].miles_from_start

\* C12 (amended) - Stop order: the stops of every plan, from the DP or the
\* greedy fallback, are in strictly increasing order of the chainage of
\* their stations, also when stations share a chainage; the reported
\* miles_from_start, rounded to two decimals, never decreases.
StopOrder ==
    /\ \A k \in 1..(Len(optimal_stops) - 1) :
          /\ StopChainage(optimal_stops[k]) < StopChainage(optimal_stops[k + 1])
          /\ optimal_stops[k].miles_from_start
                <= optimal_stops[k + 1].miles_from_start
    /\ Done => result.fuel_stops = optimal_stops

\* a plan with two stops, made where another station has the same chainage
\* as a chosen one
StopOrderWitness ==
    /\ Done /\ Len(result.fuel_stops) >= 2
    /\ \E k \in 1..n :
          /\ k \notin StopStations(result.fuel_stops)
          /\ \E m \in StopStations(result.fuel_stops) :
                on_route_stations[m].chainage = on_route_stations[k].chainage

\* C13 - Result labeling: with at least one on-route station the result
\* reports "dynamic_programming", also when the greedy fallback produced the
\* stops; "no_stations" is reported only when the corridor is empty.
ResultLabeling ==
    Done =>
        /\ n >= 1 => result.optimization_method = "dynamic_programming"
        /\ result.optimization_method = "no_stations" <=> n = 0

\* a plan of the greedy fallback labelled as the dynamic program's
ResultLabelingWitness ==
    /\ Done /\ producer = "greedy"
    /\ result.optimization_method = "dynamic_programming"

---------------------------------------------------------------------------
(* Request-level failures and validation *)

\* a request is over once it has a status
Answered == response_status # 0

\* C15: when geocoding of the start or the end address fails, or the routing
\* collaborator gives no route (an error status, a code other than "Ok", a
\* network error), the request ends with HTTP 400 and an 'error' field, no
\* plan is produced, and the failed call was not sent again: no address is
\* the subject of more than one geocoding request and the routing server
\* receives at most one request. A reply get_route cannot read is not among
\* the failures the claim names.
RequestFailure ==
    /\ (pc = "error" /\ optimizer_invoked /\ route_reply # "unreadable") =>
          /\ response_status = HTTP_400_BAD_REQUEST
          /\ response_error # ""
          /\ result = PendingResult
    /\ geocode_requests["start"] <= 1
    /\ geocode_requests["end"] <= 1
    /\ route_requests <= 1

\* the claim's grounds for refusing a field, with the length taken of the
\* string as submitted
RefusedAsSubmitted(s) ==
    \/ ~s.present
    \/ s.core = 0
    \/ s.lead + s.core + s.trail > MAX_LENGTH

\* the same, with the length taken after trimming
RefusedAfterTrimming(s) ==
    \/ ~s.present
    \/ s.core = 0
    \/ s.core > MAX_LENGTH

\* the request was refused before the optimizer: 400, no geocoding or routing
RejectedUpFront ==
    /\ response_status = HTTP_400_BAD_REQUEST
    /\ ~optimizer_invoked
    /\ geocode_requests = [start |-> 0, end |-> 0]
    /\ route_requests = 0

\* the optimizer was given start and end without surrounding whitespace
ReachedOptimizerTrimmed ==
    /\ optimizer_invoked
    /\ \A f \in {"start", "end"} :
          /\ validated_data[f].present
          /\ validated_data[f].lead = 0
          /\ validated_data[f].trail = 0
          /\ validated_data[f].core = request_data[f].core

\* C16 as stated: a request whose start or end is missing, empty after
\* trimming or longer than 200 characters is rejected with 400 before the
\* optimizer is invoked; any other request reaches the optimizer trimmed.
RequestValidationAsSubmitted ==
    pc # "post" =>
        IF RefusedAsSubmitted(request_data.start)
               \/ RefusedAsSubmitted(request_data.end)
        THEN RejectedUpFront
        ELSE ReachedOptimizerTrimmed

\* C16 (amended): a request whose start or end is missing, empty after
\* trimming or longer than 200 characters after trimming is rejected with 400
\* and the optimizer, hence any geocoding or routing call, is never invoked;
\* any other request reaches the optimizer with start and end trimmed.
RequestValidation ==
    pc # "post" =>
        IF RefusedAfterTrimming(request_data.start)
               \/ RefusedAfterTrimming(request_data.end)
        THEN RejectedUpFront
        ELSE ReachedOptimizerTrimmed

\* both branches of C16: here a request with whitespace around a start of
\* exactly 200 characters has reached the optimizer
RequestValidationWitness ==
    /\ optimizer_invoked
    /\ request_data.start.core = MAX_LENGTH
    /\ request_data.start.lead + request_data.start.trail > 0
    /\ validated_data.start = Str(0, MAX_LENGTH, 0)
    /\ geocode_requests["start"] >= 1

---------------------------------------------------------------------------
(* The ingestion run: retries, rate limit, failures, Canadian exclusion *)

\* the loop has left the current location and every request for it ended in
\* a timeout or unavailability
GivenUpOnTransient ==
    /\ pc \in {"loop", "update", "finished", "crashed"}
    /\ outcomes # <<>>
    /\ \A k \in 1..Len(outcomes) : outcomes[k] = "transient"

\* C17: a lookup that fails with a timeout or unavailability is retried up
\* to 3 times, with back-off waits of 1 s, 2 s and 4 s before the successive
\* retries, before the location is recorded as failed: a location given up
\* on after transient errors only has had 1 + 3 requests and the three waits.
RetryPolicy ==
    GivenUpOnTransient =>
        /\ Len(outcomes) = 1 + 3
        /\ backoffs = <<1, 2, 4>>

\* C18: over a whole run, across locations, attempts and retries, any two
\* consecutive geocoding requests are separated by at least one second of
\* sleep.
RateLimit == last_gap # NoGap => last_gap >= 1

\* the first request of the second location, sent one second after the last
\* request of the first location, has been answered
RateLimitWitness ==
    /\ idx = 2
    /\ pc = "attempt"
    /\ attempt = 1
    /\ last_gap = 1

\* this step is a request that ends in an exception other than a timeout or
\* unavailability
OtherErrorStep ==
    /\ Len(outcomes') = Len(outcomes) + 1
    /\ outcomes'[Len(outcomes')] = "other"

\* the step records the location as failed and leaves it for the next one
LeavesLocationForGood ==
    /\ failed_locations' =
           Append(failed_locations,
                  [city |-> location.city, state |-> location.state,
                   suffix |-> ", USA"])
    /\ idx' = idx + 1
    /\ pc' = IF idx' <= Len(unique_locations) THEN "loop" ELSE "update"
    /\ coords_cache' = coords_cache
    /\ \A k \in idx'..Len(unique_locations) : unique_locations[k] # location

\* the loop over the locations only moves forward
NeverGoesBack == pc \in {"loop", "attempt"} => idx' >= idx

\* C19: an exception other than a timeout or unavailability makes the
\* location a permanent failure for the run: the step records it as failed
\* and leaves the location, for the next one if there is one; the run never
\* goes back to a location, and no later entry of the list is that location.
PermanentFailure ==
    /\ [][OtherErrorStep => LeavesLocationForGood]_vars
    /\ [][NeverGoesBack]_vars

\* the first of two locations failed with another exception on its first
\* request and the loop is at the second
PermanentFailureWitness ==
    /\ pc = "loop"
    /\ idx = 2
    /\ outcomes = <<"other">>
    /\ Len(failed_locations) = 1
    /\ failed_locations[1].city = unique_locations[1].city
    /\ failed_locations[1].suffix = ", USA"

\* the province codes of the claim
ProvinceCodes ==
    {<<"S", "K">>, <<"A", "B">>, <<"B", "C">>, <<"M", "B">>, <<"O", "N">>,
     <<"Q", "C">>, <<"N", "B">>, <<"N", "S">>, <<"P", "E">>, <<"N", "L">>,
     <<"N", "T">>, <<"Y", "T">>, <<"N", "U">>}

\* a state that is a province code up to the case of its letters
IsProvince(state) ==
    \E code \in ProvinceCodes :
        /\ Len(code) = Len(state)
        /\ \A k \in 1..Len(code) : UpperChar(state[k]) = UpperChar(code[k])

\* the step goes to the next location without a request or a sleep
SkippedUntouched ==
    /\ idx' = idx + 1
    /\ outcomes' = <<>>
    /\ waited' = waited
    /\ last_gap' = last_gap
    /\ coords_cache' = coords_cache

\* the stations of a province have no coordinates and are not geocoded
ProvinceStationsUngeocoded ==
    \A r \in DOMAIN stations :
        IsProvince(stations[r].state) =>
            /\ ~stations[r].geocoded
            /\ stations[r].latitude = Null
            /\ stations[r].longitude = Null

\* C20: for a location whose state is a Canadian province (compared without
\* regard to case) the run issues no geocoding request and no wait, and the
\* stations of such a location stay un-geocoded with no coordinates.
CanadianExclusion ==
    /\ [][(pc = "loop" /\ IsProvince(location.state)) => SkippedUntouched]_vars
    /\ []ProvinceStationsUngeocoded

\* a run over a province written in lower case and a location of the USA
\* has finished: the province was skipped, the other station got coordinates
CanadianExclusionWitness ==
    /\ pc = "finished"
    /\ \E r \in DOMAIN stations : stations[r].state = <<"o", "n">>
    /\ \E k \in 1..Len(failed_locations) :
           failed_locations[k].suffix = " (Canada)"
    /\ \E r \in DOMAIN stations :
           stations[r].geocoded /\ stations[r].latitude = 40

---------------------------------------------------------------------------
(* The output of the corridor filter *)

\* the lateral offset of a station: its least cross-track distance
LateralOffsetOf(st) ==
    CHOOSE x \in {st.proj[seg].cross : seg \in DOMAIN st.proj} :
        \A y \in {st.proj[seg].cross : seg \in DOMAIN st.proj} : x <= y

\* C21: every station handed to the planner has a lateral offset of at most
\* the corridor half-width (15 miles) and a chainage between 0 and
\* route_distance; the list is in non-decreasing chainage order and stations
\* of equal chainage are in ascending price order.
CorridorFilterOutput ==
    pc = "filtered" =>
        /\ \A k \in 1..Len(on_route_stations) :
              /\ LateralOffsetOf(catalog[retained[k]]) <= Miles(15)
              /\ on_route_stations[k].chainage >= 0
              /\ on_route_stations[k].chainage <= route_distance
        /\ \A k \in 1..(Len(on_route_stations) - 1) :
              /\ on_route_stations[k].chainage <= on_route_stations[k + 1].chainage
              /\ on_route_stations[k].chainage = on_route_stations[k + 1].chainage
                     => on_route_stations[k].retail_price
                            <= on_route_stations[k + 1].retail_price

---------------------------------------------------------------------------
(* The edges of the DP *)

\* position of node k: START at 0, the stations at their chainage, END at
\* route_distance
Position(k) ==
    IF k = 0 THEN 0
    ELSE IF k = n + 1 THEN route_distance
    ELSE on_route_stations[k].chainage

\* the earlier nodes with an edge to node k: a leg of at most the range
EdgesInto(k) == {j \in 0..(k - 1) : ~LegOverRange(Position(j), Position(k))}

\* the cost of arriving at node k under the full-tank policy
ArrivalCost(k) ==
    IF k = n + 1 THEN Zero
    ELSE FloatMul(FloatOf(on_route_stations[k].retail_price, 100000),
                  VEHICLE_RANGE_MILES \div FUEL_EFFICIENCY_MPG)

\* the nodes whose row of the table has been computed
RowsDone ==
    IF pc = "dp" THEN 1..(i - 1)
    ELSE IF pc = "greedy" \/ PlanProduced THEN 1..(n + 1)
    ELSE {}

\* C23: a node is relaxed from an earlier node exactly over the edges of at
\* most the range (500 miles feasible, anything longer not): every computed
\* row is reachable iff some edge comes from a reachable node, its parent is
\* the start of such an edge, and its cost is the least over these edges.
EdgeRuleBoundary ==
    \A k \in RowsDone :
        /\ dp[k] # Inf <=> \E j \in EdgesInto(k) : dp[j] # Inf
        /\ dp[k] # Inf =>
              /\ parent[k] \in EdgesInto(k)
              /\ dp[parent[k]] # Inf
              /\ dp[k] = FloatAdd(dp[parent[k]], ArrivalCost(k))
              /\ \A j \in EdgesInto(k) :
                     dp[j] # Inf =>
                         ~FloatLess(FloatAdd(dp[j], ArrivalCost(k)), dp[k])
        /\ dp[k] = Inf => parent[k] = NoParent

\* the table is complete; one row was reached over a leg of exactly 500
\* miles, and one node 500.001 miles after a reachable node is unreachable
EdgeRuleBoundaryWitness ==
    /\ pc = "dp" /\ i > n + 1
    /\ \E k \in 1..(n + 1) :
           dp[k] # Inf /\ Leg(Position(parent[k]), Position(k)) = RangeFloat
    /\ \E k \in 1..(n + 1) :
           /\ dp[k] = Inf
           /\ \E j \in 0..(k - 1) :
                  dp[j] # Inf /\ Position(k) - Position(j) = Range + 1

---------------------------------------------------------------------------
(* What the greedy fallback returns *)

\* C24: whenever the planner hands over to the greedy fallback, the plan the
\* fallback returns has a gap above the range between two consecutive
\* positions of 0, its stop chainages and route_distance: the fallback never
\* returns a range-feasible plan.
FallbackNeverFeasible ==
    (producer = "greedy" /\ PlanProduced) =>
        /\ dp[n + 1] = Inf
        /\ HasGapOverRange(Positions(optimal_stops))

\* the fallback has returned two stops, the first and the destination each
\* within the range of the position before, the second not
FallbackNeverFeasibleWitness ==
    /\ pc = "totals"
    /\ producer = "greedy"
    /\ Len(optimal_stops) = 2
    /\ StopChainage(optimal_stops[1]) <= Range
    /\ LegOverRange(StopChainage(optimal_stops[1]),
                    StopChainage(optimal_stops[2]))
    /\ ~LegOverRange(StopChainage(optimal_stops[2]), route_distance)

---------------------------------------------------------------------------
(* No redundant stop on the DP path *)

\* a sequence without its element number m
Without(seq, m) ==
    [k \in 1..(Len(seq) - 1) |-> IF k < m THEN seq[k] ELSE seq[k + 1]]

AllPricesPositive ==
    \A k \in 1..n : on_route_stations[k].retail_price > 0

\* C25: when every station price is strictly positive, the plan returned by
\* the DP path has no redundant stop: with any single stop removed, two
\* consecutive positions of 0, the remaining stop chainages and
\* route_distance are more than the range apart.
NoRedundantStop ==
    (producer = "dp" /\ PlanProduced /\ AllPricesPositive) =>
        \A m \in 1..Len(optimal_stops) :
            HasGapOverRange(Positions(Without(optimal_stops, m)))

\* a DP plan of two stops over three stations of positive price
NoRedundantStopWitness ==
    /\ producer = "dp" /\ PlanProduced
    /\ n = 3
    /\ AllPricesPositive
    /\ Len(optimal_stops) = 2
    /\ optimal_stops[1].station = 2

---------------------------------------------------------------------------
(* Where a location of the run ends *)

\* the loop over the locations is over
LoopOver == pc \in {"update", "finished", "crashed"}

\* the locations the loop has left
LocationsLeft ==
    IF LoopOver THEN 1..Len(unique_locations)
    ELSE IF pc \in {"loop", "attempt"} THEN 1..(idx - 1)
    ELSE {}

\* number of entries of the coordinate cache for a location: 0 or 1
CacheEntries(loc) ==
    IF (loc.city \o <<",">> \o loc.state) \in DOMAIN coords_cache THEN 1 ELSE 0

\* number of entries of the failed list for a location
FailedEntries(loc) ==
    Cardinality({k \in 1..Len(failed_locations) :
                    /\ failed_locations[k].city = loc.city
                    /\ failed_locations[k].state = loc.state})

\* C26: whatever the geocoder answers, each distinct location the loop has
\* left is in exactly one of the coordinate cache and the failed list, once;
\* a location not reached yet is in neither, and no location receives more
\* than 3 geocoding requests.
LocationEndsOnce ==
    /\ \A k \in 1..Len(unique_locations) :
          IF k \in LocationsLeft
          THEN CacheEntries(unique_locations[k])
                   + FailedEntries(unique_locations[k]) = 1
          ELSE CacheEntries(unique_locations[k])
                   + FailedEntries(unique_locations[k]) = 0
    /\ Len(outcomes) <= 3

\* the loop is over two locations: one cached at its second request, one
\* failed after three timeouts
LocationEndsOnceWitness ==
    /\ pc = "update"
    /\ Len(unique_locations) = 2
    /\ CacheEntries(unique_locations[1]) = 1
    /\ FailedEntries(unique_locations[2]) = 1
    /\ outcomes = <<"transient", "transient", "transient">>
    /\ last_gap = 3


\* ---------------------------------------------------------------------
\* a request to the geocoder for the start address
StartGeocodeFirst ==
    geocode_requests'.start > geocode_requests.start =>
        /\ geocode_requests.end = 0
        /\ geocode_requests'.end = 0
        /\ route_requests = 0
        /\ route_requests' = 0

\* a request to the geocoder for the end address
EndGeocodeSecond ==
    geocode_requests'.end > geocode_requests.end =>
        /\ address_coords.start = "found"
        /\ geocode_requests.start >= 1
        /\ geocode_requests'.start = geocode_requests.start
        /\ route_requests = 0
        /\ route_requests' = 0

\* the request to the routing server
RouteCallLast ==
    route_requests' > route_requests =>
        /\ address_coords = [start |-> "found", end |-> "found"]
        /\ geocode_requests.start >= 1
        /\ geocode_requests.end >= 1
        /\ geocode_requests' = geocode_requests
        /\ route_requests = 0

\* the calls made so far follow the order start geocode, end geocode, route
CallsInOrder ==
    /\ route_requests <= 1
    /\ geocode_requests.end >= 1 => address_coords.start = "found"
    /\ route_requests >= 1 =>
           address_coords = [start |-> "found", end |-> "found"]
    /\ address_coords.end = "found" => address_coords.start = "found"

\* C27: in get_route_from_addresses the calls are strictly ordered start
\* geocode, end geocode, route: no start-geocode request is sent once an
\* end-geocode or routing request was sent; an end-geocode request is sent
\* only after the start geocode returned coordinates and before any routing
\* request; the routing request is sent only after both geocodes returned
\* coordinates, and at most one routing request is made per request.
CallOrder ==
    /\ []CallsInOrder
    /\ [][StartGeocodeFirst /\ EndGeocodeSecond /\ RouteCallLast]_vars

\* all three calls were made, the start geocode after a retry
CallOrderWitness ==
    /\ route_requests = 1
    /\ route_reply = "route"
    /\ geocode_requests.start = 2
    /\ geocode_requests.end >= 1
    /\ address_coords = [start |-> "found", end |-> "found"]
    /\ optimizer_invoked


\* ---------------------------------------------------------------------
OnlyUngeocodedChange ==
    pc # "handle" /\ stations' # stations =>
        /\ DOMAIN stations' = DOMAIN stations
        /\ \A r \in DOMAIN stations :
              /\ stations'[r].city = stations[r].city
              /\ stations'[r].state = stations[r].state
              /\ stations[r].geocoded => stations'[r] = stations[r]
              /\ stations'[r] # stations[r] =>
                    LET key == CacheKey(stations[r].city, stations[r].state)
                    IN  /\ key \in DOMAIN coords_cache
                        /\ stations'[r].geocoded
                        /\ stations'[r].latitude = coords_cache[key][1]
                        /\ stations'[r].longitude = coords_cache[key][2]

CacheRecordsLookups ==
    coords_cache' # coords_cache =>
        /\ pc = "attempt"
        /\ outcomes' = Append(outcomes, "success")
        /\ ~IsCanadian(location.state)
        /\ DOMAIN coords_cache' =
               DOMAIN coords_cache \cup
                   {CacheKey(location.city, location.state)}
        /\ \A key \in DOMAIN coords_cache :
               key # CacheKey(location.city, location.state) =>
                   coords_cache'[key] = coords_cache[key]
        /\ coords_cache'[CacheKey(location.city, location.state)] \in CoordSet

\* C28: the coordinate update of geocode_stations changes only stations
\* that were un-geocoded: a station already flagged geocoded keeps its
\* latitude, longitude and flag; no station is added, removed or moved to
\* another location; a station becomes geocoded only if the coordinate
\* cache holds an entry under the key of its own (city, state), and it
\* receives exactly the coordinates of that entry; and the cache gets an
\* entry only by a successful lookup of the location the loop is at.
UpdateFrame == [][OnlyUngeocodedChange /\ CacheRecordsLookups]_vars

\* a finished run over a geocoded and an un-geocoded station of the same
\* location: the first kept its coordinates, the second got the lookup's
UpdateFrameWitness ==
    /\ pc = "finished"
    /\ Len(stations) = 2
    /\ stations[1] = AlreadyGeocoded
    /\ stations[2].city = AlreadyGeocoded.city
    /\ stations[2].state = AlreadyGeocoded.state
    /\ stations[2].geocoded
    /\ CacheKey(stations[2].city, stations[2].state) \in DOMAIN coords_cache
    /\ <<stations[2].latitude, stations[2].longitude>> =
           coords_cache[CacheKey(stations[2].city, stations[2].state)]
    /\ stations[2].latitude # AlreadyGeocoded.latitude


\* ---------------------------------------------------------------------
\* the locations of the run with an entry in the coordinate cache
CachedLocations ==
    {loc \in {unique_locations[k] : k \in 1..Len(unique_locations)} :
        CacheKey(loc.city, loc.state) \in DOMAIN coords_cache}

\* the update matched the stations of every cached location
CachedLocationsUpdated ==
    \A r \in DOMAIN stations :
        LET key == CacheKey(stations[r].city, stations[r].state)
        IN  key \in DOMAIN coords_cache =>
                /\ stations[r].geocoded
                /\ stations[r].latitude # Null
                /\ stations[r].longitude # Null

\* C29: the cache key round-trips: for every location the loop stored in
\* the coordinate cache under the key "city,state", splitting the key on
\* ',' recovers exactly that city and that state, also for a city name
\* that contains a comma; so the update step never fails, and after it
\* every station of a cached location is geocoded with the cached
\* coordinates.
KeyRoundTrips ==
    /\ \A loc \in CachedLocations :
           Split(CacheKey(loc.city, loc.state)) = <<loc.city, loc.state>>
    /\ pc # "crashed"
    /\ pc = "finished" => CachedLocationsUpdated


\* ---------------------------------------------------------------------
\* the DP table after the rows 1..k, as a request running alone builds it
RECURSIVE TableAlone(_, _, _)
TableAlone(dist, sts, k) ==
    IF k = 0
    THEN [dp |-> [m \in 0..(Len(sts) + 1) |-> IF m = START_IDX THEN Zero ELSE Inf],
          parent |-> [m \in 0..(Len(sts) + 1) |-> NoParent]]
    ELSE LET before == TableAlone(dist, sts, k - 1)
             row == InnerLoop(dist, sts, before.dp, k, 0,
                              [dp |-> before.dp[k], parent |-> before.parent[k]])
         IN  [dp |-> [before.dp EXCEPT ![k] = row.dp],
              parent |-> [before.parent EXCEPT ![k] = row.parent]]

\* the stops of the greedy pass from station k on, run alone
RECURSIVE GreedyAlone(_, _, _, _, _)
GreedyAlone(sts, k, prev, range, stops) ==
    IF k > Len(sts) THEN stops
    ELSE IF NeedRefuel(DistanceBetween(prev, sts[k].chainage), range)
    THEN GreedyAlone(sts, k + 1, sts[k].chainage, Miles(VEHICLE_RANGE_MILES),
                     Append(stops, MakeStop(sts, k)))
    ELSE GreedyAlone(sts, k + 1, prev, range, stops)

\* the result of a request that runs alone
PlanAlone(input) ==
    LET dist == input.route_distance
        sts == input.on_route_stations
        table == TableAlone(dist, sts, Len(sts) + 1)
    IN  IF sts = <<>> THEN EmptyResult(dist, "no_stations", 0)
        ELSE IF TableOutcome(table.dp, sts) = "backtrack"
        THEN OptimizedRouteResult(dist, sts,
                 BuildStops(sts, Reverse(Backtrack(table.parent, sts,
                                                   END_IDX(sts)))))
        ELSE OptimizedRouteResult(dist, sts,
                 GreedyAlone(sts, 1, 0, Miles(VEHICLE_RANGE_MILES), <<>>))

\* the locals of request t, executing or parked
FrameOf(t) == IF t = running THEN Frame ELSE parked[t]

\* a step changes the locals of the executing thread only, and a hand-over
\* changes no locals at all
StepsOwnFrame ==
    \A t \in Threads :
        (t # running \/ running' # running) => FrameOf(t)' = FrameOf(t)

SamePlanAsAlone ==
    \A t \in Threads :
        /\ FrameOf(t).route_distance = inputs[t].route_distance
        /\ FrameOf(t).on_route_stations = inputs[t].on_route_stations
        /\ FrameOf(t).pc = "done" =>
               /\ FrameOf(t).result = PlanAlone(inputs[t])
               /\ FrameOf(t).response_status = HTTP_200_OK

\* C22: in any interleaving of planning requests that share the optimizer
\* and routing singletons, every request keeps the route and the station
\* list it was given and ends with the plan it gets when it runs alone;
\* a step of one thread changes no local of another request, and a thread
\* resumes with the locals it was parked with.
NoInterference == []SamePlanAsAlone /\ [][StepsOwnFrame]_vars

\* request 2 ran its table and its greedy pass to the end while request 1,
\* which started first, was parked in the middle of its own table
NoInterferenceWitness ==
    /\ running = 2
    /\ pc = "done"
    /\ producer = "greedy"
    /\ result.fuel_stops # <<>>
    /\ parked[1].pc = "dp"
    /\ parked[1].i = 2
    /\ parked[1].dp # dp
    /\ inputs[1] # inputs[2]

====
